---- MODULE Spec2Model ----
(***************************************************************************)
(* Model of the two textfile-collector scripts mpt-status.py and           *)
(* sas2ircu.py: the line and section parsers that turn the output of the   *)
(* RAID utilities into Prometheus observations.                            *)
(*                                                                         *)
(* Text is modelled as a sequence of tokens.  A token is a maximal run of  *)
(* characters of one character class (whitespace, digits, letters and      *)
(* underscore, dashes) or a single punctuation character or a single       *)
(* newline.  The regular expressions of the source only use the classes    *)
(* \s \d \w [-\w] \S and . together with literals, so on such tokens they  *)
(* decide exactly as on the characters.                                    *)
(***************************************************************************)
EXTENDS Integers, Sequences, FiniteSets, TLC

\* pc:  "call" while the call fn(arg) is pending, "done" when it has returned
\* fn:  the function called
\* arg: its argument
\* ret: what it returned or raised
\* run: for a run of main, its local variables, what it has written to the
\*      two streams, the commands it has run and its exit status
VARIABLES pc, fn, arg, ret, run

vars == <<pc, fn, arg, ret, run>>

\* no run of main: a function is called on its own
NoRun == <<>>

(***************************************************************************)
(* Bounds of the model.                                                    *)
(***************************************************************************)
MaxFlagPieces == 3

\* the most records of a section text
MaxRecords == 2

\* the most segments of a DISPLAY dump
MaxSegments == 11

\* the most tokens of a text given to split_by_empty_line
MaxTextLen == 6

(***************************************************************************)
(* Tokens and character classes.                                           *)
(***************************************************************************)
WsTok == {" ", "  "}

NlTok == {"\n"}

DigitTok == {"0", "1", "2", "10", "12", "79", "80", "100", "135", "136"}

DashTok == {"-", "----"}

PunctTok == {":", "(", ")", "#", ",", "/", "%", "=", "\"", "."}

Class(t) ==
  IF t \in WsTok THEN "ws"
  ELSE IF t \in NlTok THEN "nl"
  ELSE IF t \in DigitTok THEN "digit"
  ELSE IF t \in DashTok THEN "dash"
  ELSE IF t \in PunctTok THEN "punct"
  ELSE "alpha"

\* \s
ClsS == {"ws", "nl"}
\* \d
ClsD == {"digit"}
\* \w
ClsW == {"digit", "alpha"}
\* [-\w]
ClsDashW == {"dash", "digit", "alpha"}
\* [-\w\s]
ClsDashWS == {"dash", "digit", "alpha", "ws", "nl"}
\* \S
ClsNonS == {"digit", "alpha", "dash", "punct"}
\* . (without re.DOTALL)
ClsDot == {"ws", "digit", "alpha", "dash", "punct"}

\* str.lower() on the tokens of the model: what re.IGNORECASE compares.
Lower(t) ==
  CASE t = "IOC" -> "ioc"
    [] t = "VOL_ID" -> "vol_id"
    [] t = "TYPE" -> "type"
    [] t = "RAIDLEVEL" -> "raidlevel"
    [] t = "NUM_DISKS" -> "num_disks"
    [] t = "SIZE" -> "size"
    [] t = "GB" -> "gb"
    [] t = "STATE" -> "state"
    [] t = "State" -> "state"
    [] t = "FLAGS" -> "flags"
    [] t = "OPTIMAL" -> "optimal"
    [] t = "ENABLED" -> "enabled"
    [] t = "INFORMATION" -> "information"
    [] t = "Controller" -> "controller"
    [] t = "CONTROLLER" -> "controller"
    [] t = "IR" -> "ir"
    [] t = "Volume" -> "volume"
    [] t = "ID" -> "id"
    [] t = "Status" -> "status"
    [] t = "RAID" -> "raid"
    [] t = "Inactive" -> "inactive"
    [] t = "Okay" -> "okay"
    [] t = "OKAY" -> "okay"
    [] t = "OKY" -> "oky"
    [] t = "Physical" -> "physical"
    [] t = "Enclosure" -> "enclosure"
    [] t = "Slot" -> "slot"
    [] t = "Model" -> "model"
    [] t = "Number" -> "number"
    [] t = "Optimal" -> "optimal"
    [] t = "OPT" -> "opt"
    [] t = "Ready" -> "ready"
    [] t = "RDY" -> "rdy"
    [] t = "Initiator" -> "initiator"
    [] t = "Device" -> "device"
    [] t = "DEGRADED" -> "degraded"
    [] t = "FAILED" -> "failed"
    [] t = "UNKNOWN" -> "unknown"
    [] t = "BOGUS" -> "bogus"
    [] t = "FAILED2" -> "failed2"
    [] t = "ONLINE" -> "online"
    [] t = "MISSING" -> "missing"
    [] t = "NOT_COMPATIBLE" -> "not_compatible"
    [] t = "INITIALIZING" -> "initializing"
    [] t = "OFFLINE_REQUESTED" -> "offline_requested"
    [] t = "FAILED_REQUESTED" -> "failed_requested"
    [] t = "OTHER_OFFLINE" -> "other_offline"
    [] t = "QUIESCED" -> "quiesced"
    [] t = "RESYNC_IN_PROGRESS" -> "resync_in_progress"
    [] t = "VOLUME_INACTIVE" -> "volume_inactive"
    [] t = "OUT_OF_SYNC" -> "out_of_sync"
    [] t = "NONE" -> "none"
    [] t = "Found" -> "found"
    [] t = "SCSI" -> "scsi"
    [] t = "SCSI_ID" -> "scsi_id"
    [] OTHER -> t

RECURSIVE Concat(_)
\* "".join(tokens): the text a token sequence stands for.
Concat(s) == IF s = <<>> THEN "" ELSE Head(s) \o Concat(Tail(s))

RECURSIVE Chars(_)
\* len() of the text a token sequence stands for.
Chars(s) == IF s = <<>> THEN 0 ELSE Len(Head(s)) + Chars(Tail(s))

Max(S) == CHOOSE n \in S : \A m \in S : m <= n

Min(S) == CHOOSE n \in S : \A m \in S : n <= m

(***************************************************************************)
(* Regular expressions: a pattern is a sequence of elements, matched with  *)
(* Python's backtracking priority (a greedy element takes the longest run  *)
(* for which the rest matches, a lazy one the shortest).                   *)
(***************************************************************************)
\* a literal, compared under re.IGNORECASE
Lit(toks) ==
  [k |-> "lit", toks |-> toks, cls |-> {}, min |-> 0, lazy |-> FALSE,
   grp |-> "", sub |-> <<>>, first |-> {}]

\* cls* (min = 0) or cls+ (min = 1: at least min characters), greedy
Rep(cls, min) ==
  [k |-> "rep", toks |-> <<>>, cls |-> cls, min |-> min, lazy |-> FALSE,
   grp |-> "", sub |-> <<>>, first |-> cls]

\* (?P<grp>cls+)
Grp(grp, cls, min) ==
  [k |-> "rep", toks |-> <<>>, cls |-> cls, min |-> min, lazy |-> FALSE,
   grp |-> grp, sub |-> <<>>, first |-> cls]

\* (first cls+?): one character of the classes first, then lazily one or more
\* of cls; min is the least number of characters, 2
GrpLazy(grp, first, cls, min) ==
  [k |-> "rep", toks |-> <<>>, cls |-> cls, min |-> min, lazy |-> TRUE,
   grp |-> grp, sub |-> <<>>, first |-> first]

\* $ (without re.MULTILINE): the end, or just before a final newline
End ==
  [k |-> "end", toks |-> <<>>, cls |-> {}, min |-> 0, lazy |-> FALSE,
   grp |-> "", sub |-> <<>>, first |-> {}]

\* (sub)?
Opt(sub) ==
  [k |-> "opt", toks |-> <<>>, cls |-> {}, min |-> 0, lazy |-> FALSE,
   grp |-> "", sub |-> sub, first |-> {}]

\* the number of tokens from position i on that lie in the classes cls
RunLen(cls, s, i) ==
  Max({n \in 0..(Len(s) - i + 1) : \A j \in 0..(n - 1) : Class(s[i + j]) \in cls})

LitAt(toks, s, i) ==
  /\ i + Len(toks) - 1 <= Len(s)
  /\ \A j \in 1..Len(toks) : Lower(s[i + j - 1]) = Lower(toks[j])

RECURSIVE MatchFrom(_, _, _, _)

\* the numbers of tokens the element e can take at position i of s
Takes(e, s, i) ==
  CASE e.k = "lit" -> IF LitAt(e.toks, s, i) THEN {Len(e.toks)} ELSE {}
    [] e.k = "rep" ->
         {n \in 0..RunLen(e.cls, s, i) :
            /\ Chars(SubSeq(s, i, i + n - 1)) >= e.min
            /\ n > 0 => Class(s[i]) \in e.first}
    [] e.k = "end" ->
         IF i = Len(s) + 1 \/ (i = Len(s) /\ s[i] = "\n") THEN {0} ELSE {}
    [] e.k = "opt" ->
         LET m == MatchFrom(e.sub, s, 1, i)
         IN  IF m.ok THEN {0, m.n} ELSE {0}

\* the pairs <<i, n>> of a start in R and a number of tokens e can take there
Pairs(e, s, R) == UNION {{<<i, n>> : n \in Takes(e, s, i)} : i \in R}

\* the positions after the pairs of P
After(P) == {p[1] + p[2] : p \in P}

RECURSIVE Reach(_, _, _, _, _)
\* for each of the elements a..b the pairs it can be matched with when
\* element a may start at the positions R.  The range is halved instead of
\* walked, which keeps the evaluation shallow.
Reach(re, s, a, b, R) ==
  IF a = b THEN <<Pairs(re[a], s, R)>>
  ELSE LET m == (a + b) \div 2
           left == Reach(re, s, a, m, R)
           R1 == After(left[Len(left)])
       IN  IF R1 = {} THEN left \o [j \in 1..(b - m) |-> {}]
           ELSE left \o Reach(re, s, m + 1, b, R1)

RECURSIVE Back(_, _, _, _)
\* of the pairs Ps of the elements a..b those from which the pattern can
\* be completed: T holds the positions that are good after element b
Back(Ps, a, b, T) ==
  IF a = b THEN <<{p \in Ps[a] : p[1] + p[2] \in T}>>
  ELSE LET m == (a + b) \div 2
           right == Back(Ps, m + 1, b, T)
           T1 == {p[1] : p \in right[1]}
       IN  IF T1 = {} THEN [j \in 1..(m - a + 1) |-> {}] \o right
           ELSE Back(Ps, a, m, T1) \o right

RECURSIVE Pick(_, _, _, _, _, _)
\* the priority of the backtracking: from position i each of the elements
\* a..b takes the most tokens (the fewest when it is lazy) with which the
\* rest matches
Pick(re, s, Gs, a, b, i) ==
  IF a = b
  THEN LET N == {p[2] : p \in {q \in Gs[a] : q[1] = i}}
           n == CHOOSE y \in N : \A z \in N : IF re[a].lazy THEN y <= z ELSE y >= z
       IN  [caps |-> <<SubSeq(s, i, i + n - 1)>>, i |-> i + n]
  ELSE LET m == (a + b) \div 2
           left == Pick(re, s, Gs, a, m, i)
       IN  IF left.i < 0 THEN left
           ELSE LET right == Pick(re, s, Gs, m + 1, b, left.i)
                IN  [caps |-> left.caps \o right.caps, i |-> right.i]

\* elements k.. of pattern re against s from position i:
\* [ok, caps: the tokens each element took, n: the tokens taken in all]
MatchFrom(re, s, k, i) ==
  LET tl == SubSeq(re, k, Len(re))
      Ps == Reach(tl, s, 1, Len(tl), {i})
      T == After(Ps[Len(tl)])
      x == Pick(tl, s, Back(Ps, 1, Len(tl), T), 1, Len(tl), i)
  IN  IF tl = <<>> THEN [ok |-> TRUE, caps |-> <<>>, n |-> 0]
      ELSE IF T = {} THEN [ok |-> FALSE, caps |-> <<>>, n |-> 0]
      ELSE [ok |-> TRUE, caps |-> x.caps, n |-> x.i - i]

\* regexp.match(s): anchored at the start of s
Match(re, s) == MatchFrom(re, s, 1, 1)

\* regexp.search(s): truth value only
Search(re, s) == \E i \in 1..(Len(s) + 1) : MatchFrom(re, s, 1, i).ok

\* m.group(grp), as the captured tokens (a group is one element of a pattern)
GroupSeq(re, m, grp) == m.caps[CHOOSE k \in 1..Len(re) : re[k].grp = grp]

\* m.group(grp), as text
Group(re, m, grp) == Concat(GroupSeq(re, m, grp))

(***************************************************************************)
(* mpt-status.py                                                           *)
(***************************************************************************)
None == <<>>

VOLUME_LINE_RE ==
  << Rep(ClsS, 0), Lit(<<"ioc", ":">>), Rep(ClsS, 0), Grp("controller_id", ClsD, 1),
     Rep(ClsS, 1), Lit(<<"vol_id", ":">>), Rep(ClsS, 0), Grp("volume_id", ClsD, 1),
     Rep(ClsS, 1), Lit(<<"type", ":">>), Rep(ClsS, 0), Grp("type", ClsW, 1),
     Rep(ClsS, 1), Lit(<<"raidlevel", ":">>), Rep(ClsS, 0), Grp("raidlevel", ClsDashW, 1),
     Rep(ClsS, 1), Lit(<<"num_disks", ":">>), Rep(ClsS, 0), Grp("num_disks", ClsD, 1),
     Rep(ClsS, 1), Lit(<<"size", "(", "GB", ")", ":">>), Rep(ClsS, 0), Grp("size", ClsD, 1),
     Rep(ClsS, 1), Lit(<<"state", ":">>), Rep(ClsS, 0), Grp("state", ClsW, 1),
     Rep(ClsS, 1), Lit(<<"flags", ":">>), Grp("flags", ClsDot, 1) >>

VOLUME_STATES == <<"OPTIMAL", "DEGRADED", "FAILED", "UNKNOWN">>

VOLUME_FLAGS == <<"ENABLED", "QUIESCED", "RESYNC_IN_PROGRESS", "VOLUME_INACTIVE">>

\* Metric(name, type, help, value, labels)
Metric(name, type, help, value, labels) ==
  [name |-> name, type |-> type, help |-> help, value |-> value, labels |-> labels]

\* the empty dict {}
EmptyLabels == [k \in {} |-> ""]

mpt_status_state == Metric("mpt_status_state", "gauge", "device state", None, EmptyLabels)

mpt_status_flag == Metric("mpt_status_flag", "gauge", "device flags", None, EmptyLabels)

mpt_status_disks_num ==
  Metric("mpt_status_disks_num", "gauge", "number of disks in logical volume", None,
         EmptyLabels)

mpt_status_sync_percentage ==
  Metric("mpt_status_sync_percentage", "gauge", "sync status", None, EmptyLabels)

mpt_status_size_gib ==
  Metric("mpt_status_size_gib", "gauge", "capacity of device in gibibytes", None,
         EmptyLabels)

\* namedtuple._replace(value=value, labels=labels)
Replace(metric, value, labels) == [metric EXCEPT !.value = value, !.labels = labels]

\* labels = base_labels.copy(); labels[key] = v
WithLabel(base_labels, key, v) ==
  [k \in DOMAIN base_labels \cup {key} |-> IF k = key THEN v ELSE base_labels[k]]

IsWs(t) == Class(t) \in ClsS

RECURSIVE SplitFrom(_, _)
\* str.split(): cur is the word being read
SplitFrom(s, cur) ==
  IF s = <<>> THEN (IF cur = "" THEN <<>> ELSE <<cur>>)
  ELSE IF IsWs(Head(s))
       THEN (IF cur = "" THEN <<>> ELSE <<cur>>) \o SplitFrom(Tail(s), "")
       ELSE SplitFrom(Tail(s), cur \o Head(s))

\* str.split() with no argument: the maximal runs of non-whitespace characters
Split(s) == SplitFrom(s, "")

\* x in list
InList(x, list) == \E i \in 1..Len(list) : list[i] = x

Return(val) == [exc |-> "", val |-> val]

Raise(exc) == [exc |-> exc, val |-> <<>>]

\* StateMetrics with an unknown state word counted as the last symbol (UNKNOWN)
StateMetrics_UnknownIsLast(states, base_labels, state_word) ==
  [i \in 1..Len(states) |->
     Replace(mpt_status_state,
             IF \/ state_word = states[i]
                \/ (i = Len(states) /\ ~InList(state_word, states))
             THEN 1 ELSE 0,
             WithLabel(base_labels, "state", states[i]))]

\* StateMetrics with the state word compared without regard to case
StateMetrics_IgnoreCase(states, base_labels, state_word) ==
  [i \in 1..Len(states) |->
     Replace(mpt_status_state,
             IF Lower(state_word) = Lower(states[i]) THEN 1 ELSE 0,
             WithLabel(base_labels, "state", states[i]))]

\* the loop over a state universe
StateMetrics(states, base_labels, state_word) ==
  [i \in 1..Len(states) |->
     Replace(mpt_status_state,
             IF state_word = states[i] THEN 1 ELSE 0,
             WithLabel(base_labels, "state", states[i]))]

\* FlagMetrics that looks at the first token of the flags only
FlagMetrics_FirstTokenOnly(universe, base_labels, flags) ==
  [i \in 1..Len(universe) |->
     Replace(mpt_status_flag,
             IF flags # <<>> /\ flags[1] = universe[i] THEN 1 ELSE 0,
             WithLabel(base_labels, "flag", universe[i]))]

\* the loop over a flag universe
FlagMetrics(universe, base_labels, flags) ==
  [i \in 1..Len(universe) |->
     Replace(mpt_status_flag,
             IF InList(universe[i], flags) THEN 1 ELSE 0,
             WithLabel(base_labels, "flag", universe[i]))]

\* parse_volume_line with the last two observations in the other order
parse_volume_line_DisksNumFirst(line) ==
  LET m == Match(VOLUME_LINE_RE, line)
      g(name) == Group(VOLUME_LINE_RE, m, name)
      base_labels ==
        [controller_id |-> g("controller_id"), device |-> "logical",
         id |-> g("volume_id"), type |-> g("type"), raidlevel |-> g("raidlevel")]
      flags == Split(GroupSeq(VOLUME_LINE_RE, m, "flags"))
  IN  IF ~m.ok THEN Raise("LineParseError")
      ELSE Return(StateMetrics(VOLUME_STATES, base_labels, g("state"))
                  \o FlagMetrics(VOLUME_FLAGS, base_labels, flags)
                  \o <<Replace(mpt_status_disks_num, g("num_disks"), base_labels)>>
                  \o <<Replace(mpt_status_size_gib, g("size"), base_labels)>>)

parse_volume_line(line) ==
  LET m == Match(VOLUME_LINE_RE, line)
      g(name) == Group(VOLUME_LINE_RE, m, name)
      base_labels ==
        [controller_id |-> g("controller_id"), device |-> "logical",
         id |-> g("volume_id"), type |-> g("type"), raidlevel |-> g("raidlevel")]
      flags == Split(GroupSeq(VOLUME_LINE_RE, m, "flags"))
  IN  IF ~m.ok THEN Raise("LineParseError")
      ELSE Return(StateMetrics(VOLUME_STATES, base_labels, g("state"))
                  \o FlagMetrics(VOLUME_FLAGS, base_labels, flags)
                  \o <<Replace(mpt_status_size_gib, g("size"), base_labels)>>
                  \o <<Replace(mpt_status_disks_num, g("num_disks"), base_labels)>>)

\* __print_physdisk_advanced lines of a disk that is member of a volume
PHYS_LINE_RE ==
  << Rep(ClsS, 0), Lit(<<"ioc", ":">>), Rep(ClsS, 0), Grp("controller_id", ClsD, 1),
     Rep(ClsS, 1), Lit(<<"phys_id", ":">>), Rep(ClsS, 0), Grp("phys_id", ClsD, 1),
     Rep(ClsS, 1), Lit(<<"scsi_id", ":">>), Rep(ClsS, 0), Grp("scsi_id", ClsD, 1),
     Rep(ClsS, 1), Lit(<<"vendor", ":">>), Rep(ClsS, 0), Grp("vendor", ClsNonS, 1),
     Rep(ClsS, 1), Lit(<<"product_id", ":">>), Rep(ClsS, 0), Grp("product_id", ClsNonS, 1),
     Rep(ClsS, 1), Lit(<<"revision", ":">>), Rep(ClsS, 0), Grp("revision", ClsNonS, 1),
     Rep(ClsS, 1), Lit(<<"size", "(", "GB", ")", ":">>), Rep(ClsS, 0), Grp("size", ClsD, 1),
     Rep(ClsS, 1), Lit(<<"state", ":">>), Rep(ClsS, 0), Grp("state", ClsW, 1),
     Rep(ClsS, 1), Lit(<<"flags", ":">>), Grp("flags", ClsDot, 1),
     Rep(ClsS, 1), Lit(<<"sync_state", ":">>), Rep(ClsS, 0), Grp("sync_state", ClsD, 1) >>

SPARE_LINE_RE ==
  << Rep(ClsS, 0), Lit(<<"ioc", ":">>), Rep(ClsS, 0), Grp("controller_id", ClsD, 1),
     Rep(ClsS, 1), Lit(<<"spare_id", ":">>), Rep(ClsS, 0), Grp("spare_id", ClsD, 1),
     Rep(ClsS, 1), Lit(<<"scsi_id", ":">>), Rep(ClsS, 0), Grp("scsi_id", ClsD, 1),
     Rep(ClsS, 1), Lit(<<"vendor", ":">>), Rep(ClsS, 0), Grp("vendor", ClsNonS, 1),
     Rep(ClsS, 1), Lit(<<"product_id", ":">>), Rep(ClsS, 0), Grp("product_id", ClsNonS, 1),
     Rep(ClsS, 1), Lit(<<"revision", ":">>), Rep(ClsS, 0), Grp("revision", ClsNonS, 1),
     Rep(ClsS, 1), Lit(<<"size", "(", "GB", ")", ":">>), Rep(ClsS, 0), Grp("size", ClsD, 1),
     Rep(ClsS, 1), Lit(<<"state", ":">>), Rep(ClsS, 0), Grp("state", ClsW, 1),
     Rep(ClsS, 1), Lit(<<"flags", ":">>), Grp("flags", ClsDot, 1),
     Rep(ClsS, 1), Lit(<<"sync_state", ":">>), Rep(ClsS, 0), Lit(<<"n", "/", "a">>) >>

DISK_STATES ==
  <<"ONLINE", "MISSING", "NOT_COMPATIBLE", "FAILED", "INITIALIZING",
    "OFFLINE_REQUESTED", "FAILED_REQUESTED", "OTHER_OFFLINE", "UNKNOWN">>

DISK_FLAGS == <<"OUT_OF_SYNC", "QUIESCED">>

parse_phys_line(line) ==
  LET m == Match(PHYS_LINE_RE, line)
      g(name) == Group(PHYS_LINE_RE, m, name)
      base_labels ==
        [controller_id |-> g("controller_id"), device |-> "physical",
         id |-> g("phys_id"), scsi_id |-> g("scsi_id"), vendor |-> g("vendor"),
         product_id |-> g("product_id"), revision |-> g("revision")]
      flags == Split(GroupSeq(PHYS_LINE_RE, m, "flags"))
  IN  IF ~m.ok THEN Raise("LineParseError")
      ELSE Return(StateMetrics(DISK_STATES, base_labels, g("state"))
                  \o FlagMetrics(DISK_FLAGS, base_labels, flags)
                  \o <<Replace(mpt_status_sync_percentage, g("sync_state"), base_labels)>>
                  \o <<Replace(mpt_status_size_gib, g("size"), base_labels)>>)

parse_spare_line(line) ==
  LET m == Match(SPARE_LINE_RE, line)
      g(name) == Group(SPARE_LINE_RE, m, name)
      base_labels ==
        [controller_id |-> g("controller_id"), device |-> "spare",
         id |-> g("spare_id"), scsi_id |-> g("scsi_id"), vendor |-> g("vendor"),
         product_id |-> g("product_id"), revision |-> g("revision")]
      flags == Split(GroupSeq(SPARE_LINE_RE, m, "flags"))
  IN  IF ~m.ok THEN Raise("LineParseError")
      ELSE Return(StateMetrics(DISK_STATES, base_labels, g("state"))
                  \o FlagMetrics(DISK_FLAGS, base_labels, flags)
                  \o <<Replace(mpt_status_size_gib, g("size"), base_labels)>>)

\* parse_line that does not try parse_spare_line
parse_line_NoSpare(line) ==
  IF parse_volume_line(line).exc # "LineParseError" THEN parse_volume_line(line)
  ELSE IF parse_phys_line(line).exc # "LineParseError" THEN parse_phys_line(line)
  ELSE Raise("UnrecognizedLine")

\* for parse_fn in (parse_volume_line, parse_phys_line, parse_spare_line):
\* the result of the first that does not raise LineParseError
parse_line(line) ==
  IF parse_volume_line(line).exc # "LineParseError" THEN parse_volume_line(line)
  ELSE IF parse_phys_line(line).exc # "LineParseError" THEN parse_phys_line(line)
  ELSE IF parse_spare_line(line).exc # "LineParseError" THEN parse_spare_line(line)
  ELSE Raise("UnrecognizedLine")

(***************************************************************************)
(* Inputs of the line parsers: lines as mpt-status prints them, with the   *)
(* state word and the flags text varied.                                   *)
(***************************************************************************)
\* all sequences over S of length at most n
SeqsUpTo(S, n) == UNION {[1..k -> S] : k \in 0..n}

\* the tokenisation is maximal: no two neighbours of one run class
Canonical(s) ==
  \A i \in 1..(Len(s) - 1) :
    Class(s[i]) \in {"ws", "digit", "alpha", "dash"} => Class(s[i]) # Class(s[i + 1])

\* a line up to and including "state:", as in the doctests, with the
\* keywords in capitals, and with a field missing
VolumePrefixes ==
  { <<"ioc", ":", "0", " ", "vol_id", ":", "10", " ", "type", ":", "IM", " ",
      "raidlevel", ":", "RAID", "-", "1", " ", "num_disks", ":", "2", " ",
      "size", "(", "GB", ")", ":", "135", " ", "state", ":">>,
    <<" ", "IOC", ":", " ", "1", "  ", "VOL_ID", ":", " ", "0", " ", "TYPE", ":", "IS", " ",
      "RAIDLEVEL", ":", "RAID", "-", "0", " ", "NUM_DISKS", ":", "2", " ",
      "SIZE", "(", "GB", ")", ":", "136", " ", "STATE", ":">>,
    <<"ioc", ":", "0", " ", "type", ":", "IM", " ",
      "raidlevel", ":", "RAID", "-", "1", " ", "num_disks", ":", "2", " ",
      "size", "(", "GB", ")", ":", "135", " ", "state", ":">> }

DiskPrefixes(id_key) ==
  { <<"ioc", ":", "0", " ", id_key, ":", "1", " ", "scsi_id", ":", "12", " ",
      "vendor", ":", "IBM", "-", "ESXS", " ", "product_id", ":", "ST3146356SS", "  ",
      "revision", ":", "BA49", " ", "size", "(", "GB", ")", ":", "136", " ",
      "state", ":">>,
    <<"ioc", ":", "0", " ", id_key, ":", "1", " ", "scsi_id", ":", "12", " ",
      "vendor", ":", "IBM", "-", "ESXS", " ", "product_id", ":", "ST3146356SS", "  ",
      "revision", ":", "BA49", " ", "state", ":">> }

\* what follows "state:" up to "flags:"
VolumeStateWords ==
  { <<" ", "OPTIMAL">>, <<" ", "DEGRADED">>, <<"FAILED">>, <<" ", "UNKNOWN">>,
    <<" ", "optimal">>, <<" ", "BOGUS">>, <<" ", "FAILED", "2">>, <<>> }

DiskStateWords ==
  { <<" ", "ONLINE">>, <<"UNKNOWN">>, <<" ", "online">>, <<" ", "OPTIMAL">> }

VolumeFlagPieces == {" ", ",", "ENABLED", "QUIESCED", "NONE", "enabled"}

DiskFlagPieces == {" ", "OUT_OF_SYNC", "QUIESCED", "NONE"}

\* the text after "flags:"
FlagTexts(pieces) == {s \in SeqsUpTo(pieces, MaxFlagPieces) : Canonical(s)}

\* the end of a disk line
DiskTails ==
  { <<" ", "sync_state", ":", " ", "100", " ", "ASC", "/", "ASCQ", ":", "0x11">>,
    <<" ", "sync_state", ":", " ", "n", "/", "a", " ", "ASC", "/", "ASCQ", ":", "0x11">>,
    <<" ", "sync_state", ":", " ", "100", " ", "sync_state", ":", "12">>,
    <<>> }

VolumeLines ==
  { p \o w \o <<" ", "flags", ":">> \o f :
      p \in VolumePrefixes, w \in VolumeStateWords, f \in FlagTexts(VolumeFlagPieces) }

DiskLines(id_key) ==
  { p \o w \o <<" ", "flags", ":">> \o f \o t :
      p \in DiskPrefixes(id_key), w \in DiskStateWords,
      f \in FlagTexts(DiskFlagPieces), t \in DiskTails }

MptLines == VolumeLines \cup DiskLines("phys_id") \cup DiskLines("spare_id")

MptParsers == {"parse_volume_line", "parse_phys_line", "parse_spare_line"}

\* the line parsers and parse_line, which tries them in turn
MptFunctions == MptParsers \cup {"parse_line"}

(***************************************************************************)
(* The line parsers of mpt-status.py, each called on one line.             *)
(***************************************************************************)
InitMpt ==
  /\ pc = "call"
  /\ fn \in MptFunctions
  /\ arg \in MptLines
  /\ ret = Return(<<>>)
  /\ run = NoRun

ParseVolumeLine ==
  /\ pc = "call" /\ fn = "parse_volume_line"
  /\ ret' = parse_volume_line(arg)
  /\ pc' = "done"
  /\ UNCHANGED <<fn, arg, run>>

ParsePhysLine ==
  /\ pc = "call" /\ fn = "parse_phys_line"
  /\ ret' = parse_phys_line(arg)
  /\ pc' = "done"
  /\ UNCHANGED <<fn, arg, run>>

ParseSpareLine ==
  /\ pc = "call" /\ fn = "parse_spare_line"
  /\ ret' = parse_spare_line(arg)
  /\ pc' = "done"
  /\ UNCHANGED <<fn, arg, run>>

ParseLine ==
  /\ pc = "call" /\ fn = "parse_line"
  /\ ret' = parse_line(arg)
  /\ pc' = "done"
  /\ UNCHANGED <<fn, arg, run>>

NextMpt == ParseVolumeLine \/ ParsePhysLine \/ ParseSpareLine \/ ParseLine

SpecMpt == InitMpt /\ [][NextMpt]_vars

(***************************************************************************)
(* Properties of the line parsers of mpt-status.py.                        *)
(***************************************************************************)
\* the call of a line parser returned observations: its pattern matched
Accepted == pc = "done" /\ fn \in MptParsers /\ ret.exc = ""

LineRe ==
  CASE fn = "parse_volume_line" -> VOLUME_LINE_RE
    [] fn = "parse_phys_line" -> PHYS_LINE_RE
    [] fn = "parse_spare_line" -> SPARE_LINE_RE

StateUniverse == IF fn = "parse_volume_line" THEN VOLUME_STATES ELSE DISK_STATES

FlagUniverse == IF fn = "parse_volume_line" THEN VOLUME_FLAGS ELSE DISK_FLAGS

\* the state word and the flags text the pattern captured from the line
CapturedState == Group(LineRe, Match(LineRe, arg), "state")

CapturedFlags == GroupSeq(LineRe, Match(LineRe, arg), "flags")

Range(seq) == {seq[i] : i \in 1..Len(seq)}

\* the positions of the returned observations of one metric name
Positions(name) == {i \in 1..Len(ret.val) : ret.val[i].name = name}

\* ... and those among them with value 1
Ones(name) == {i \in Positions(name) : ret.val[i].value = 1}

\* C1 as stated: every accepted line gives |U| state observations of which
\* exactly one has value 1, whatever the state word.
C1_ExactlyOneStateIsOne ==
  Accepted =>
    /\ Cardinality(Positions("mpt_status_state")) = Len(StateUniverse)
    /\ Cardinality(Ones("mpt_status_state")) = 1

\* C1 (amended): every accepted line gives |U| state observations, one per
\* symbol of the universe in its declared order; the observation of a symbol
\* has value 1 exactly if the captured state word is that symbol, so exactly
\* one has value 1 if the word is a symbol of the universe and none otherwise.
C1_StateOneHotOrAllZero ==
  Accepted =>
    /\ Positions("mpt_status_state") = 1..Len(StateUniverse)
    /\ \A i \in 1..Len(StateUniverse) :
         /\ ret.val[i].labels.state = StateUniverse[i]
         /\ ret.val[i].value = IF CapturedState = StateUniverse[i] THEN 1 ELSE 0
    /\ Cardinality(Ones("mpt_status_state")) =
         IF CapturedState \in Range(StateUniverse) THEN 1 ELSE 0

\* an accepted line whose state word is a symbol of the universe
C1_Witness ==
  /\ Accepted
  /\ CapturedState \in Range(StateUniverse)
  /\ Cardinality(Ones("mpt_status_state")) = 1

\* C2: the flag observations of an accepted line are |flag universe| many,
\* one per symbol; as many of them have value 1 as there are distinct tokens
\* of the captured flags text that are symbols of the universe; a token
\* outside the universe gives no observation.
C2_FlagOnesCountRecognizedTokens ==
  Accepted =>
    /\ Cardinality(Positions("mpt_status_flag")) = Len(FlagUniverse)
    /\ Cardinality(Ones("mpt_status_flag")) =
         Cardinality({t \in Range(Split(CapturedFlags)) : t \in Range(FlagUniverse)})
    /\ {ret.val[i].labels.flag : i \in Positions("mpt_status_flag")} = Range(FlagUniverse)

\* an accepted line with two flag tokens, one a symbol of the universe and
\* one outside it
C2_Witness ==
  /\ Accepted
  /\ Len(Split(CapturedFlags)) = 2
  /\ Cardinality(Ones("mpt_status_flag")) = 1
  /\ \E t \in Range(Split(CapturedFlags)) : t \notin Range(FlagUniverse)

VolumeBaseKeys == {"controller_id", "device", "id", "type", "raidlevel"}

\* the base labels of a volume line, from what the pattern captured
VolumeBaseOk(labels) ==
  LET m == Match(VOLUME_LINE_RE, arg)
  IN  /\ labels.controller_id = Group(VOLUME_LINE_RE, m, "controller_id")
      /\ labels.device = "logical"
      /\ labels.id = Group(VOLUME_LINE_RE, m, "volume_id")
      /\ labels.type = Group(VOLUME_LINE_RE, m, "type")
      /\ labels.raidlevel = Group(VOLUME_LINE_RE, m, "raidlevel")

\* C3: parse_volume_line returns, in this order, the states in declared
\* order, the flags in declared order, the size and the number of disks; all
\* carry the five base labels, states and flags one label more.
C3_VolumeLineResult ==
  (Accepted /\ fn = "parse_volume_line") =>
    LET n == Len(VOLUME_STATES)
        f == Len(VOLUME_FLAGS)
        m == Match(VOLUME_LINE_RE, arg)
    IN  /\ Len(ret.val) = n + f + 2
        /\ \A i \in 1..Len(ret.val) : VolumeBaseOk(ret.val[i].labels)
        /\ \A i \in 1..n :
             /\ ret.val[i].name = "mpt_status_state"
             /\ DOMAIN ret.val[i].labels = VolumeBaseKeys \cup {"state"}
             /\ ret.val[i].labels.state = VOLUME_STATES[i]
        /\ \A i \in 1..f :
             /\ ret.val[n + i].name = "mpt_status_flag"
             /\ DOMAIN ret.val[n + i].labels = VolumeBaseKeys \cup {"flag"}
             /\ ret.val[n + i].labels.flag = VOLUME_FLAGS[i]
        /\ ret.val[n + f + 1].name = "mpt_status_size_gib"
        /\ ret.val[n + f + 1].value = Group(VOLUME_LINE_RE, m, "size")
        /\ DOMAIN ret.val[n + f + 1].labels = VolumeBaseKeys
        /\ ret.val[n + f + 2].name = "mpt_status_disks_num"
        /\ ret.val[n + f + 2].value = Group(VOLUME_LINE_RE, m, "num_disks")
        /\ DOMAIN ret.val[n + f + 2].labels = VolumeBaseKeys

\* the line of the doctest, with capitals and more blanks
C3_Witness ==
  /\ Accepted /\ fn = "parse_volume_line"
  /\ Len(ret.val) = 10
  /\ ret.val[9].value = "136" /\ ret.val[10].value = "2"
  /\ ret.val[1].labels.raidlevel = "RAID-0"
  /\ ret.val[5].value = 1

\* C5 as stated: state words and flag tokens are compared with the universe
\* without regard to case, and the label keeps the casing of the input.
C5_CaseInsensitiveMatch ==
  Accepted =>
    \A i \in 1..Len(StateUniverse) :
      Lower(CapturedState) = Lower(StateUniverse[i]) =>
        /\ ret.val[i].value = 1
        /\ ret.val[i].labels.state = CapturedState

\* C5 (amended): the comparison is exact. A state word or flag token that
\* differs from a symbol only in case sets no series to 1, and the state or
\* flag label is the symbol as the universe declares it, whatever the input.
C5_CaseSensitiveMatch ==
  Accepted =>
    /\ \A i \in 1..Len(StateUniverse) :
         /\ ret.val[i].labels.state = StateUniverse[i]
         /\ ret.val[i].value = 1 => CapturedState = StateUniverse[i]
         /\ (Lower(CapturedState) = Lower(StateUniverse[i])
               /\ CapturedState # StateUniverse[i]) => ret.val[i].value = 0
    /\ \A i \in 1..Len(FlagUniverse) :
         LET o == ret.val[Len(StateUniverse) + i]
         IN  /\ o.labels.flag = FlagUniverse[i]
             /\ o.value = 1 => FlagUniverse[i] \in Range(Split(CapturedFlags))
             /\ (FlagUniverse[i] \notin Range(Split(CapturedFlags))
                   /\ \E t \in Range(Split(CapturedFlags)) :
                        Lower(t) = Lower(FlagUniverse[i])) => o.value = 0

\* accepted lines "state: optimal" and "flags: enabled": no series is 1
C5_Witness ==
  /\ Accepted
  /\ CapturedState = "optimal"
  /\ Ones("mpt_status_state") = {}
  /\ Split(CapturedFlags) = <<"enabled">>
  /\ Ones("mpt_status_flag") = {}

(***************************************************************************)
(* sas2ircu.py                                                             *)
(***************************************************************************)
sas2ircu_state_ok ==
  Metric("sas2ircu_state_ok", "gauge", "reports whether device state is ok", None,
         EmptyLabels)

\* re.compile(r".*")
AnyRe == <<Rep(ClsDot, 0)>>

DISPLAY_CMD_STRUCT ==
  << AnyRe,
     <<Rep(ClsS, 0), Lit(<<"Controller">>), Rep(ClsS, 1), Lit(<<"information">>),
       Rep(ClsS, 0), End>>,
     AnyRe,
     <<Rep(ClsS, 0), Lit(<<"IR">>), Rep(ClsS, 1), Lit(<<"Volume">>), Rep(ClsS, 1),
       Lit(<<"information">>), Rep(ClsS, 0), End>>,
     AnyRe,
     <<Rep(ClsS, 0), Lit(<<"Physical">>), Rep(ClsS, 1), Lit(<<"device">>), Rep(ClsS, 1),
       Lit(<<"information">>), Rep(ClsS, 0), End>>,
     AnyRe,
     <<Rep(ClsS, 0), Lit(<<"Enclosure">>), Rep(ClsS, 1), Lit(<<"information">>),
       Rep(ClsS, 0), End>>,
     AnyRe,
     AnyRe >>

\* (pattern, attribute); the group of a pattern is group 1
IR_VOLUME_REGEXP_MAP ==
  << [re |-> <<Rep(ClsS, 0), Lit(<<"IR">>), Rep(ClsS, 1), Lit(<<"volume">>),
               Rep(ClsS, 1), Grp("1", ClsD, 1)>>,
      attr |-> "volume_num"],
     [re |-> <<Rep(ClsS, 0), Lit(<<"Volume">>), Rep(ClsS, 1), Lit(<<"ID">>),
               Rep(ClsS, 0), Lit(<<":">>), Rep(ClsS, 0), Grp("1", ClsD, 1)>>,
      attr |-> "volume_id"],
     [re |-> <<Rep(ClsS, 0), Lit(<<"Status">>), Rep(ClsS, 1), Lit(<<"of">>),
               Rep(ClsS, 1), Lit(<<"volume">>), Rep(ClsS, 0), Lit(<<":">>),
               Grp("1", ClsDot, 1)>>,
      attr |-> "state"],
     [re |-> <<Rep(ClsS, 0), Lit(<<"RAID">>), Rep(ClsS, 1), Lit(<<"level">>),
               Rep(ClsS, 0), Lit(<<":">>), Rep(ClsS, 0), Grp("1", ClsW, 1)>>,
      attr |-> "raidlevel"] >>

IR_VOLUME_OK_STATE ==
  << Opt(<<Lit(<<"Inactive", ",">>), Rep(ClsS, 0)>>),
     Lit(<<"Okay">>), Rep(ClsS, 0), Lit(<<"(", "OKY", ")">>) >>

PHYS_DEVICE_REGEXP_MAP ==
  << [re |-> <<Rep(ClsS, 0), Lit(<<"Enclosure">>), Rep(ClsS, 1), Lit(<<"#">>),
               Rep(ClsS, 0), Lit(<<":">>), Rep(ClsS, 0), Grp("1", ClsD, 1)>>,
      attr |-> "enclosure"],
     [re |-> <<Rep(ClsS, 0), Lit(<<"Slot">>), Rep(ClsS, 1), Lit(<<"#">>),
               Rep(ClsS, 0), Lit(<<":">>), Rep(ClsS, 0), Grp("1", ClsD, 1)>>,
      attr |-> "slot"],
     [re |-> <<Rep(ClsS, 0), Lit(<<"State">>), Rep(ClsS, 0), Lit(<<":">>),
               Grp("1", ClsDot, 1)>>,
      attr |-> "state"],
     [re |-> <<Rep(ClsS, 0), Lit(<<"Model">>), Rep(ClsS, 1), Lit(<<"Number">>),
               Rep(ClsS, 0), Lit(<<":">>), Rep(ClsS, 0),
               GrpLazy("1", ClsW, ClsDashWS, 2), Rep(ClsS, 0), End>>,
      attr |-> "model"] >>

PHYS_DEVICE_OK_STATE ==
  << <<Lit(<<"Optimal">>), Rep(ClsS, 0), Lit(<<"(", "OPT", ")">>)>>,
     <<Lit(<<"Ready">>), Rep(ClsS, 0), Lit(<<"(", "RDY", ")">>)>> >>

PHYS_DEVICE_SKIP_PARTS ==
  << <<Lit(<<"Initiator", " ", "at", " ", "ID", " ", "#">>)>>,
     <<Lit(<<"Device", " ", "is", " ", "a", " ", "Enclosure", " ", "services", " ",
             "device">>)>> >>

\* a dash run of two or more followed by a newline, at position i
RuleAt(text, i) ==
  /\ i + 1 <= Len(text)
  /\ Class(text[i]) = "dash" /\ Len(text[i]) >= 2
  /\ text[i + 1] = "\n"

\* the k-th smallest element of a set of positions
Nth(P, k) == CHOOSE i \in P : Cardinality({j \in P : j < i}) = k - 1

\* re.split(r"-{2,}\n", text): the pieces between the rules, empty ones included
SplitOnRule(text) ==
  LET R == {i \in 1..Len(text) : RuleAt(text, i)}
      n == Cardinality(R)
  IN  [k \in 1..(n + 1) |->
         SubSeq(text, IF k = 1 THEN 1 ELSE Nth(R, k - 1) + 2,
                      IF k = n + 1 THEN Len(text) ELSE Nth(R, k) - 1)]

\* parts[2::2]
EveryOtherFrom2(parts) == [i \in 1..((Len(parts) - 1) \div 2) |-> parts[2 * i + 1]]

\* parts[1::2]
EveryOtherFrom1(parts) == [i \in 1..(Len(parts) \div 2) |-> parts[2 * i]]

\* split_display_sections that returns parts[1::2]
split_display_sections_From1(text) ==
  LET parts == SplitOnRule(text)
  IN  IF Len(parts) # Len(DISPLAY_CMD_STRUCT) THEN Raise("ParseError")
      ELSE IF \E i \in 1..Len(parts) : ~Match(DISPLAY_CMD_STRUCT[i], parts[i]).ok
           THEN Raise("NameError")
           ELSE Return(EveryOtherFrom1(parts))

\* split_display_sections that returns the two middle bodies only
split_display_sections_MiddleTwo(text) ==
  LET parts == SplitOnRule(text)
  IN  IF Len(parts) # Len(DISPLAY_CMD_STRUCT) THEN Raise("ParseError")
      ELSE IF \E i \in 1..Len(parts) : ~Match(DISPLAY_CMD_STRUCT[i], parts[i]).ok
           THEN Raise("NameError")
           ELSE Return(<<parts[5], parts[7]>>)

\* A part that fails its pattern makes the raise statement evaluate the
\* undefined name `pattern`: NameError is raised, not ParseError.
split_display_sections(text) ==
  LET parts == SplitOnRule(text)
  IN  IF Len(parts) # Len(DISPLAY_CMD_STRUCT) THEN Raise("ParseError")
      ELSE IF \E i \in 1..Len(parts) : ~Match(DISPLAY_CMD_STRUCT[i], parts[i]).ok
           THEN Raise("NameError")
           ELSE Return(EveryOtherFrom2(parts))

\* str.splitlines(): the pieces between the newlines; what follows the last
\* newline is a line only if it is not empty
splitlines(text) ==
  LET N == {i \in 1..Len(text) : text[i] = "\n"}
      n == Cardinality(N)
      last == IF n = 0 THEN 0 ELSE Nth(N, n)
      count == IF last = Len(text) THEN n ELSE n + 1
  IN  [k \in 1..count |->
         SubSeq(text, IF k = 1 THEN 1 ELSE Nth(N, k - 1) + 1,
                      IF k = n + 1 THEN Len(text) ELSE Nth(N, k) - 1)]

\* text_lines[a:b]
Slice(list, a, b) == SubSeq(list, a + 1, b)

RECURSIVE SplitLoop_NoTail(_, _, _, _)
\* the loop of split_by_empty_line without its else branch
SplitLoop_NoTail(text_lines, i, start, parts) ==
  IF i = Len(text_lines) THEN parts
  ELSE IF Len(text_lines[i + 1]) = 0
       THEN SplitLoop_NoTail(text_lines, i + 1, i + 1,
                             IF i # start THEN Append(parts, Slice(text_lines, start, i))
                             ELSE parts)
       ELSE SplitLoop_NoTail(text_lines, i + 1, start, parts)

RECURSIVE SplitLoop(_, _, _, _)
\* for i, line in enumerate(text_lines): ... else: ...   (i counts from 0)
SplitLoop(text_lines, i, start, parts) ==
  IF i = Len(text_lines)
  THEN (IF start # Len(text_lines)
        THEN Append(parts, Slice(text_lines, start, Len(text_lines)))
        ELSE parts)
  ELSE IF Len(text_lines[i + 1]) = 0
       THEN SplitLoop(text_lines, i + 1, i + 1,
                      IF i # start THEN Append(parts, Slice(text_lines, start, i))
                      ELSE parts)
       ELSE SplitLoop(text_lines, i + 1, start, parts)

split_by_empty_line(text) == SplitLoop(splitlines(text), 0, 0, <<>>)

\* value = 1 if IR_VOLUME_OK_STATE.search(m.group(1)) else 0
ir_volume_state_value(captured) == IF Search(IR_VOLUME_OK_STATE, captured) THEN 1 ELSE 0

\* value = 1 if any(r.search(m.group(1)) for r in PHYS_DEVICE_OK_STATE) else 0
phys_device_state_value(captured) ==
  IF \E r \in 1..Len(PHYS_DEVICE_OK_STATE) : Search(PHYS_DEVICE_OK_STATE[r], captured)
  THEN 1 ELSE 0

RECURSIVE ScanPatterns(_, _, _, _, _)
\* for regex, attr in regexp_map: ...   acc = [labels, value]; an unset value
\* (None) is <<>>, a set value v is <<v>>
ScanPatterns(line, regexp_map, j, device, acc) ==
  IF j > Len(regexp_map) THEN acc
  ELSE
    LET m == Match(regexp_map[j].re, line)
        attr == regexp_map[j].attr
        captured == GroupSeq(regexp_map[j].re, m, "1")
        next ==
          IF ~m.ok THEN acc
          ELSE IF attr = "state"
               THEN [acc EXCEPT !.value =
                       <<IF device = "logical" THEN ir_volume_state_value(captured)
                         ELSE phys_device_state_value(captured)>>]
               ELSE [acc EXCEPT !.labels = WithLabel(acc.labels, attr, Concat(captured))]
    IN  ScanPatterns(line, regexp_map, j + 1, device, next)

RECURSIVE ScanPart(_, _, _, _)
\* for line in part: ...
ScanPart(part, regexp_map, device, acc) ==
  IF part = <<>> THEN acc
  ELSE ScanPart(Tail(part), regexp_map, device,
                ScanPatterns(Head(part), regexp_map, 1, device, acc))

\* the check with the labels forgotten
RecordInvalid_ValueOnly(value, labels, regexp_map) == value = None

\* if value is None or len(labels) - 1 != len(regexp_map) - 1
\* (labels is a dict: a second line of an attribute overwrites the first)
RecordInvalid(value, labels, regexp_map) ==
  value = None \/ Cardinality(DOMAIN labels) - 1 # Len(regexp_map) - 1

RECURSIVE IrVolumeLoop(_, _)
\* for part in parts: ...
IrVolumeLoop(parts, metrics) ==
  IF parts = <<>> THEN Return(metrics)
  ELSE
    LET part == Head(parts)
        acc == ScanPart(part, IR_VOLUME_REGEXP_MAP, "logical",
                        [labels |-> [device |-> "logical"], value |-> None])
    IN  IF Len(part) = 0 THEN IrVolumeLoop(Tail(parts), metrics)
        ELSE IF RecordInvalid(acc.value, acc.labels, IR_VOLUME_REGEXP_MAP)
             THEN Raise("ParseError")
             ELSE IrVolumeLoop(Tail(parts),
                    Append(metrics, Replace(sas2ircu_state_ok, acc.value[1], acc.labels)))

parse_ir_volume_sect(text) == IrVolumeLoop(split_by_empty_line(text), <<>>)

\* the test with the first of the two patterns only
SkipPart_FirstPatternOnly(part) == Match(PHYS_DEVICE_SKIP_PARTS[1], part[1]).ok

\* any(r.match(part[0]) for r in PHYS_DEVICE_SKIP_PARTS)
SkipPart(part) ==
  \E r \in 1..Len(PHYS_DEVICE_SKIP_PARTS) : Match(PHYS_DEVICE_SKIP_PARTS[r], part[1]).ok

RECURSIVE PhysDeviceLoop(_, _)
\* for part in parts: ...   (part[0] of an empty part raises IndexError)
PhysDeviceLoop(parts, metrics) ==
  IF parts = <<>> THEN Return(metrics)
  ELSE
    LET part == Head(parts)
        acc == ScanPart(part, PHYS_DEVICE_REGEXP_MAP, "physical",
                        [labels |-> [device |-> "physical"], value |-> None])
    IN  IF Len(part) = 0 THEN Raise("IndexError")
        ELSE IF SkipPart(part) THEN PhysDeviceLoop(Tail(parts), metrics)
        ELSE IF RecordInvalid(acc.value, acc.labels, PHYS_DEVICE_REGEXP_MAP)
             THEN Raise("ParseError")
             ELSE PhysDeviceLoop(Tail(parts),
                    Append(metrics, Replace(sas2ircu_state_ok, acc.value[1], acc.labels)))

parse_phys_device_sect(text) == PhysDeviceLoop(split_by_empty_line(text), <<>>)

\* metric.labels["controller_id"] = controller_id, for every metric
SetControllerId(metrics, controller_id) ==
  [i \in 1..Len(metrics) |->
     [metrics[i] EXCEPT !.labels = WithLabel(metrics[i].labels, "controller_id",
                                             controller_id)]]

\* DisplayMetrics with the observations of the physical devices first
DisplayMetrics_PhysFirst(controller_id, vol, phys) ==
  IF vol.exc # "" THEN Raise(vol.exc)
  ELSE IF phys.exc # "" THEN Raise(phys.exc)
  ELSE Return(SetControllerId(phys.val \o vol.val, controller_id))

\* metrics = parse_ir_volume_sect(...) + parse_phys_device_sect(...), then
\* the label on every metric; an exception of either call goes to the caller
DisplayMetrics(controller_id, vol, phys) ==
  IF vol.exc # "" THEN Raise(vol.exc)
  ELSE IF phys.exc # "" THEN Raise(phys.exc)
  ELSE Return(SetControllerId(vol.val \o phys.val, controller_id))

\* _, ir_volume_sect, phys_device_sect, _ = split_display_sections(text)
\* (the set of one element holds the value of the call: it is made once)
parse_display(controller_id, text) ==
  LET results ==
        {IF sects.exc # "" THEN Raise(sects.exc)
         ELSE DisplayMetrics(controller_id, parse_ir_volume_sect(sects.val[2]),
                             parse_phys_device_sect(sects.val[3])) :
           sects \in {split_display_sections(text)}}
  IN  CHOOSE r \in results : TRUE

(***************************************************************************)
(* Inputs of the sas2ircu.py functions.                                    *)
(***************************************************************************)
RECURSIVE JoinLines(_)
\* every line followed by a newline
JoinLines(lines) ==
  IF lines = <<>> THEN <<>> ELSE Head(lines) \o <<"\n">> \o JoinLines(Tail(lines))

RECURSIVE RecordsText(_)
\* records separated by one empty line
RecordsText(recs) ==
  IF recs = <<>> THEN <<>>
  ELSE JoinLines(Head(recs))
         \o (IF Tail(recs) = <<>> THEN <<>> ELSE <<"\n">> \o RecordsText(Tail(recs)))

IrVolumeNum == <<"IR", " ", "volume", " ", "1">>

IrVolumeId(v) == <<"  ", "Volume", " ", "ID", "  ", ":", " ", v>>

IrStatus(st) == <<"  ", "Status", " ", "of", " ", "volume", "  ", ":", " ">> \o st

IrRaid(level) == <<"  ", "RAID", " ", "level", "  ", ":", " ", "RAID", level>>

\* a line no pattern of the table matches
IrOtherLine == <<"  ", "Size", " ", "(", "in", " ", "MB", ")", "  ", ":", " ", "100">>

StOkay == <<"Okay", " ", "(", "OKY", ")">>

StInactiveOkay == <<"Inactive", ",", " ", "Okay", " ", "(", "OKY", ")">>

StDegraded == <<"Degraded", " ", "(", "DGD", ")">>

StNotOkay == <<"Failed", ",", " ", "not", " ", "Okay", " ", "(", "OKY", ")">>

StOkayCapitals == <<"OKAY", "(", "oky", ")", "  ">>

IrStatusTexts == {StOkay, StInactiveOkay, StDegraded, StNotOkay, StOkayCapitals}

\* a field of a record: absent, on one line, on two lines
IrStatusChoices ==
  {<<>>} \cup {<<IrStatus(st)>> : st \in IrStatusTexts}
         \cup {<<IrStatus(StOkay), IrStatus(StDegraded)>>,
               <<IrStatus(StDegraded), IrStatus(StOkay)>>}

IrIdChoices == {<<>>, <<IrVolumeId("79")>>, <<IrVolumeId("79"), IrVolumeId("80")>>}

IrRaidChoices == {<<>>, <<IrRaid("1")>>, <<IrRaid("1"), IrRaid("0")>>}

IrNumChoices == {<<>>, <<IrVolumeNum>>}

IrRecords ==
  {n \o i \o st \o r \o <<IrOtherLine>> :
     n \in IrNumChoices, i \in IrIdChoices, st \in IrStatusChoices, r \in IrRaidChoices}

IrValidRecord ==
  <<<<"IR", " ", "volume", " ", "2">>, IrVolumeId("80"), IrStatus(StOkay), IrRaid("1")>>

\* the records that may follow the first: a valid one, one without its
\* volume id, one that is a line of blanks
IrFollowers ==
  {IrValidRecord, <<IrVolumeNum, IrStatus(StDegraded), IrRaid("0")>>, <<<<"  ">>>>}

LeadChoices == {<<>>, <<"\n">>}

IrSectionTexts ==
  LeadChoices \cup
  {lead \o RecordsText(<<r>> \o f) :
     lead \in LeadChoices, r \in IrRecords, f \in SeqsUpTo(IrFollowers, MaxRecords - 1)}

PhysHardDisk == <<"Device", " ", "is", " ", "a", " ", "Hard", " ", "disk">>

PhysInitiator == <<"Initiator", " ", "at", " ", "ID", " ", "#", "0">>

PhysEnclosureServices ==
  <<"Device", " ", "is", " ", "a", " ", "Enclosure", " ", "services", " ", "device">>

PhysEnclosure(v) == <<"  ", "Enclosure", " ", "#", "  ", ":", " ", v>>

PhysSlot(v) == <<"  ", "Slot", " ", "#", "  ", ":", " ", v>>

PhysState(st) == <<"  ", "State", "  ", ":", " ">> \o st

PhysModel(mdl) == <<"  ", "Model", " ", "Number", "  ", ":", " ">> \o mdl

PhysOtherLine == <<"  ", "SAS", " ", "Address", "  ", ":", " ", "0">>

StOptimal == <<"Optimal", " ", "(", "OPT", ")">>

StReady == <<"Ready", "(", "RDY", ")">>

StFailed == <<"Failed", " ", "(", "FLD", ")">>

PhysFirstChoices == {<<>>, <<PhysHardDisk>>, <<PhysInitiator>>, <<PhysEnclosureServices>>}

PhysEnclosureChoices == {<<>>, <<PhysEnclosure("1")>>}

PhysSlotChoices == {<<>>, <<PhysSlot("0")>>}

PhysStateChoices ==
  {<<>>, <<PhysState(StOptimal)>>, <<PhysState(StReady)>>, <<PhysState(StFailed)>>,
   <<PhysState(StOptimal), PhysState(StFailed)>>}

PhysModelChoices ==
  {<<>>, <<PhysModel(<<"WDC", " ", "WD", "-", "1">>)>>, <<PhysModel(<<"ST", "  ">>)>>,
   <<PhysModel(<<"WDC", " ", "WD", "-", "1">>), PhysModel(<<"ST", "  ">>)>>}

PhysRecords ==
  {f \o e \o sl \o st \o mdl \o <<PhysOtherLine>> :
     f \in PhysFirstChoices, e \in PhysEnclosureChoices, sl \in PhysSlotChoices,
     st \in PhysStateChoices, mdl \in PhysModelChoices}

PhysValidRecord ==
  <<PhysHardDisk, PhysEnclosure("2"), PhysSlot("1"), PhysState(StReady),
    PhysModel(<<"ST", "  ">>)>>

PhysFollowers == {PhysValidRecord, <<PhysInitiator, PhysOtherLine>>}

PhysSectionTexts ==
  LeadChoices \cup
  {lead \o RecordsText(<<r>> \o f) :
     lead \in LeadChoices, r \in PhysRecords, f \in SeqsUpTo(PhysFollowers, MaxRecords - 1)}

IrSecondRecord ==
  <<IrVolumeNum, IrVolumeId("79"), IrStatus(StDegraded), IrRaid("0")>>

PhysSecondRecord ==
  <<PhysHardDisk, PhysEnclosure("2"), PhysSlot("0"), PhysState(StFailed),
    PhysModel(<<"WDC", " ", "WD", "-", "1">>)>>

\* a line of dashes
Rule == <<"----", "\n">>

BadHeader == <<"Foo", "\n">>

\* the segments a dump may have at position i
SegOptions(i) ==
  CASE i = 1 -> {<<"LSI", " ", "utility", "\n">>}
    [] i = 2 -> {<<"Controller", " ", "information", "\n">>,
                 <<"\n", " ", "controller", "  ", "INFORMATION", " ", "\n">>,
                 BadHeader}
    [] i = 3 -> {<<>>, <<"  ", "Controller", " ", "type", "  ", ":", " ", "SAS", "\n">>}
    [] i = 4 -> {<<"IR", " ", "Volume", " ", "information", "\n">>,
                 <<"IR", " ", "Volume", " ", "information", "\n", "x", "\n">>}
    [] i = 5 -> {<<>>, RecordsText(<<IrValidRecord>>),
                 RecordsText(<<IrValidRecord, IrSecondRecord>>),
                 RecordsText(<<<<IrVolumeNum, IrStatus(StDegraded), IrRaid("0")>>>>)}
    [] i = 6 -> {<<"Physical", " ", "device", " ", "information", "\n">>}
    [] i = 7 -> {<<>>, RecordsText(<<PhysValidRecord>>),
                 RecordsText(<<<<PhysInitiator>>, PhysValidRecord, PhysSecondRecord>>),
                 RecordsText(<<<<PhysInitiator>>, <<PhysHardDisk, PhysState(StFailed)>>>>)}
    [] i = 8 -> {<<"Enclosure", " ", "information", "\n">>, BadHeader}
    [] i = 9 -> {<<"  ", "Enclosure", " ", "#", "  ", ":", " ", "1", "\n">>}
    [] i = 10 -> {<<"SAS", "2", "IRCU", ":", " ", "Utility", " ", "Completed", "\n">>}
    [] OTHER -> {<<"more", "\n">>}

RECURSIVE SegSeqs(_)
\* the dumps of n segments, as sequences of segments
SegSeqs(n) ==
  IF n = 0 THEN {<<>>}
  ELSE {Append(segs, o) : segs \in SegSeqs(n - 1), o \in SegOptions(n)}

RECURSIVE JoinRule(_)
\* the segments with a line of dashes between neighbours
JoinRule(segs) ==
  IF Len(segs) = 1 THEN segs[1]
  ELSE segs[1] \o Rule \o JoinRule(Tail(segs))

DisplayTexts ==
  {JoinRule(segs) : segs \in UNION {SegSeqs(n) : n \in (MaxSegments - 2)..MaxSegments}}

ControllerIds == {"0", "12"}

TextTok == {"x", " ", "\n"}

\* the texts of up to MaxTextLen tokens over a letter, a blank and a newline
SmallTexts == {t \in SeqsUpTo(TextTok, MaxTextLen) : Canonical(t)}

(***************************************************************************)
(* The specification of sas2ircu.py: one call of one of its functions.     *)
(***************************************************************************)
InitSas ==
  /\ pc = "call"
  /\ \/ fn = "split_display_sections" /\ arg \in DisplayTexts
     \/ fn = "parse_ir_volume_sect" /\ arg \in IrSectionTexts
     \/ fn = "parse_phys_device_sect" /\ arg \in PhysSectionTexts
     \/ fn = "split_by_empty_line" /\ arg \in SmallTexts
     \/ /\ fn = "parse_display"
        /\ arg \in [controller_id : ControllerIds, text : DisplayTexts]
  /\ ret = Return(<<>>)
  /\ run = NoRun

SplitDisplaySections ==
  /\ pc = "call" /\ fn = "split_display_sections"
  /\ ret' = split_display_sections(arg)
  /\ pc' = "done"
  /\ UNCHANGED <<fn, arg, run>>

ParseIrVolumeSect ==
  /\ pc = "call" /\ fn = "parse_ir_volume_sect"
  /\ ret' = parse_ir_volume_sect(arg)
  /\ pc' = "done"
  /\ UNCHANGED <<fn, arg, run>>

ParsePhysDeviceSect ==
  /\ pc = "call" /\ fn = "parse_phys_device_sect"
  /\ ret' = parse_phys_device_sect(arg)
  /\ pc' = "done"
  /\ UNCHANGED <<fn, arg, run>>

SplitByEmptyLine ==
  /\ pc = "call" /\ fn = "split_by_empty_line"
  /\ ret' = Return(split_by_empty_line(arg))
  /\ pc' = "done"
  /\ UNCHANGED <<fn, arg, run>>

ParseDisplay ==
  /\ pc = "call" /\ fn = "parse_display"
  /\ ret' = parse_display(arg.controller_id, arg.text)
  /\ pc' = "done"
  /\ UNCHANGED <<fn, arg, run>>

NextSas ==
  \/ SplitDisplaySections
  \/ ParseIrVolumeSect
  \/ ParsePhysDeviceSect
  \/ SplitByEmptyLine
  \/ ParseDisplay

SpecSas == InitSas /\ [][NextSas]_vars

(***************************************************************************)
(* Properties of sas2ircu.py.                                              *)
(***************************************************************************)
SasDone(f) == pc = "done" /\ fn = f

\* str.strip() of a line
Strip(s) ==
  LET I == {i \in 1..Len(s) : Class(s[i]) \notin ClsS}
  IN  IF I = {} THEN <<>> ELSE SubSeq(s, Min(I), Max(I))

\* the pattern matches the whole of s
FullMatch(re, s) == Match(re \o <<End>>, s).ok /\ (s = <<>> \/ s[Len(s)] # "\n")

\* the lines of a record that the pattern matches
Occ(part, re) == {l \in 1..Len(part) : Match(re, part[l]).ok}

\* what the pattern captures on the last line of the record that it matches
LastCapture(part, re) ==
  GroupSeq(re, Match(re, part[Max(Occ(part, re))]), "1")

StatusRe == IR_VOLUME_REGEXP_MAP[3].re

\* C4: every record of a section that parse_ir_volume_sect accepts gives one
\* observation, whose value is 1 exactly when the text captured after
\* "Status of volume :", trimmed, is the phrase "Okay (OKY)", optionally
\* preceded by "Inactive,"; a status that only contains the phrase gives 0.
C4_StateOkIffExactPhrase ==
  SasDone("parse_ir_volume_sect") /\ ret.exc = "" =>
    LET parts == split_by_empty_line(arg)
    IN  /\ Len(ret.val) = Len(parts)
        /\ \A k \in 1..Len(parts) :
             ret.val[k].value = 1
               <=> FullMatch(IR_VOLUME_OK_STATE, Strip(LastCapture(parts[k], StatusRe)))

\* the dump has ten segments and each passes its pattern
WellFormed(text) ==
  LET parts == SplitOnRule(text)
  IN  /\ Len(parts) = 10
      /\ \A i \in 1..10 : Match(DISPLAY_CMD_STRUCT[i], parts[i]).ok

\* C6: split_display_sections raises ParseError, and returns no section,
\* whenever the dump does not split into ten segments and whenever one of
\* ten segments fails the pattern of its position.
C6_IllFormedRaisesParseError ==
  SasDone("split_display_sections") /\ ~WellFormed(arg) =>
    ret.exc = "ParseError" /\ ret.val = <<>>

\* C7: on a dump of ten segments that all pass their patterns,
\* split_display_sections returns four bodies, segments 3, 5, 7 and 9 as
\* they are, in that order; an empty segment is returned as the empty text.
C7_FourBodiesVerbatim ==
  SasDone("split_display_sections") /\ WellFormed(arg) =>
    LET parts == SplitOnRule(arg)
    IN  /\ ret.exc = ""
        /\ Len(ret.val) = 4
        /\ ret.val = <<parts[3], parts[5], parts[7], parts[9]>>
        /\ JoinRule(parts) = arg

\* a dump with an empty controller body next to a volume body with a record
C7_Witness ==
  /\ SasDone("split_display_sections") /\ WellFormed(arg)
  /\ ret.exc = ""
  /\ ret.val[1] = <<>> /\ ret.val[2] # <<>> /\ ret.val[3] = <<>>

\* C8, as stated: the value split_display_sections returns holds the volume
\* and the physical-device body and nothing else.
C8_SplitterReturnsVolumeAndPhysOnly ==
  SasDone("split_display_sections") /\ ret.exc = "" =>
    LET parts == SplitOnRule(arg)
    IN  ret.val = <<parts[5], parts[7]>>

\* the metric without the label parse_display adds
SameButControllerId(metric, from) ==
  /\ metric.value = from.value
  /\ DOMAIN metric.labels = DOMAIN from.labels \cup {"controller_id"}
  /\ \A key \in DOMAIN from.labels : metric.labels[key] = from.labels[key]

\* C8: split_display_sections returns the controller body first and the
\* enclosure body last, around the volume and the physical-device body; it
\* is parse_display that leaves the two out: its observations are those of
\* the volume body followed by those of the physical-device body.
C8_SplitterKeepsAllDisplayDropsTwo ==
  /\ SasDone("split_display_sections") /\ ret.exc = "" =>
       LET parts == SplitOnRule(arg)
       IN  /\ Len(ret.val) = 4
           /\ ret.val[1] = parts[3] /\ ret.val[4] = parts[9]
           /\ ret.val[2] = parts[5] /\ ret.val[3] = parts[7]
  /\ SasDone("parse_display") /\ WellFormed(arg.text) =>
       LET parts == SplitOnRule(arg.text)
           vol == parse_ir_volume_sect(parts[5])
           phys == parse_phys_device_sect(parts[7])
           from == vol.val \o phys.val
       IN  IF vol.exc # "" \/ phys.exc # "" THEN ret.exc = "ParseError"
           ELSE /\ ret.exc = ""
                /\ Len(ret.val) = Len(from)
                /\ \A i \in 1..Len(from) : SameButControllerId(ret.val[i], from[i])

\* a dump whose controller and enclosure bodies are not empty
C8_Witness ==
  /\ SasDone("split_display_sections") /\ ret.exc = ""
  /\ Len(ret.val) = 4
  /\ ret.val[1] # <<>> /\ ret.val[4] # <<>>
  /\ ret.val[2] # <<>> /\ ret.val[3] # <<>>

\* the lines at which a run of lines that are not empty starts
RunStarts(lines) ==
  {i \in 1..Len(lines) : lines[i] # <<>> /\ (i = 1 \/ lines[i - 1] = <<>>)}

\* the last line of the run that starts at line i
RunEnd(lines, i) ==
  Max({j \in i..Len(lines) : \A l \in i..j : lines[l] # <<>>})

RECURSIVE Flatten(_)
Flatten(parts) == IF parts = <<>> THEN <<>> ELSE Head(parts) \o Flatten(Tail(parts))

RECURSIVE NonEmptyLines(_)
NonEmptyLines(lines) ==
  IF lines = <<>> THEN <<>>
  ELSE (IF Head(lines) = <<>> THEN <<>> ELSE <<Head(lines)>>) \o NonEmptyLines(Tail(lines))

\* C9: split_by_empty_line returns the maximal runs of consecutive lines that
\* are not empty, in the order of the text: no record for an empty text, one
\* record with all the lines when no line is empty, no empty record, no
\* empty line in a record, and the records together are the lines of the
\* text that are not empty.  (A line of blanks is not empty.)
C9_MaximalRunsOfNonEmptyLines ==
  SasDone("split_by_empty_line") =>
    LET lines == splitlines(arg)
        parts == ret.val
        starts == RunStarts(lines)
    IN  /\ ret.exc = ""
        /\ Len(parts) = Cardinality(starts)
        /\ \A k \in 1..Len(parts) :
             parts[k] = SubSeq(lines, Nth(starts, k), RunEnd(lines, Nth(starts, k)))
        /\ arg = <<>> => parts = <<>>
        /\ (lines # <<>> /\ \A i \in 1..Len(lines) : lines[i] # <<>>) => parts = <<lines>>
        /\ \A k \in 1..Len(parts) :
             parts[k] # <<>> /\ \A l \in 1..Len(parts[k]) : parts[k][l] # <<>>
        /\ Flatten(parts) = NonEmptyLines(lines)

\* a text that starts with an empty line, has two empty lines in a row and
\* ends with an empty line, with a record before and one after the pair
C9_Witness ==
  /\ SasDone("split_by_empty_line")
  /\ Len(ret.val) = 2
  /\ LET lines == splitlines(arg)
     IN  /\ Len(lines) >= 4
         /\ lines[1] = <<>>
         /\ \E i \in 1..(Len(lines) - 1) : lines[i] = <<>> /\ lines[i + 1] = <<>>

SectionParsers == {"parse_ir_volume_sect", "parse_phys_device_sect"}

RegexpMapOf(f) ==
  IF f = "parse_ir_volume_sect" THEN IR_VOLUME_REGEXP_MAP ELSE PHYS_DEVICE_REGEXP_MAP

\* the records of the section that the parser does not pass over
Considered(f, parts) ==
  {k \in 1..Len(parts) :
     IF f = "parse_ir_volume_sect" THEN Len(parts[k]) # 0 ELSE ~SkipPart(parts[k])}

\* a field of the table is on no line of the record
Missing(part, regexp_map) ==
  \E j \in 1..Len(regexp_map) : Occ(part, regexp_map[j].re) = {}

\* a field of the table is on two lines of the record
Duplicate(part, regexp_map) ==
  \E j \in 1..Len(regexp_map) : Cardinality(Occ(part, regexp_map[j].re)) >= 2

\* C10, as stated: a record in which a field of the table is missing or is
\* on two lines makes the section parser raise ParseError and return no
\* observation.
C10_MissingOrDuplicateRaises ==
  pc = "done" /\ fn \in SectionParsers =>
    LET parts == split_by_empty_line(arg)
        regexp_map == RegexpMapOf(fn)
    IN  (\E k \in Considered(fn, parts) :
           Missing(parts[k], regexp_map) \/ Duplicate(parts[k], regexp_map))
          => ret.exc = "ParseError" /\ ret.val = <<>>

\* C10: the section parser raises ParseError, and returns no observation,
\* exactly when a record it does not pass over lacks a field of the table;
\* a field on two lines is no error: the record gives its observation with
\* what the last of the lines carries.
C10_MissingRaisesDuplicateKeepsLast ==
  pc = "done" /\ fn \in SectionParsers =>
    LET parts == split_by_empty_line(arg)
        regexp_map == RegexpMapOf(fn)
        cons == Considered(fn, parts)
    IN  /\ ret.exc \in {"", "ParseError"}
        /\ ret.exc = "ParseError" <=> \E k \in cons : Missing(parts[k], regexp_map)
        /\ ret.exc = "ParseError" => ret.val = <<>>
        /\ ret.exc = "" =>
             /\ Len(ret.val) = Cardinality(cons)
             /\ \A n \in 1..Len(ret.val) : \A j \in 1..Len(regexp_map) :
                  LET captured == LastCapture(parts[Nth(cons, n)], regexp_map[j].re)
                      attr == regexp_map[j].attr
                  IN  IF attr = "state"
                      THEN ret.val[n].value =
                             (IF fn = "parse_ir_volume_sect"
                              THEN ir_volume_state_value(captured)
                              ELSE phys_device_state_value(captured))
                      ELSE ret.val[n].labels[attr] = Concat(captured)

\* a section with a record that has a field on two lines, and is accepted
C10_Witness ==
  /\ pc = "done" /\ fn \in SectionParsers
  /\ ret.exc = "" /\ Len(ret.val) >= 1
  /\ LET parts == split_by_empty_line(arg)
     IN  \E k \in Considered(fn, parts) : Duplicate(parts[k], RegexpMapOf(fn))

(***************************************************************************)
(* Properties of parse_line.                                               *)
(***************************************************************************)
\* the line parsers that accept the line
Accepting(line) ==
  {f \in MptParsers :
     CASE f = "parse_volume_line" -> Match(VOLUME_LINE_RE, line).ok
       [] f = "parse_phys_line" -> Match(PHYS_LINE_RE, line).ok
       [] f = "parse_spare_line" -> Match(SPARE_LINE_RE, line).ok}

ResultOf(f, line) ==
  CASE f = "parse_volume_line" -> parse_volume_line(line)
    [] f = "parse_phys_line" -> parse_phys_line(line)
    [] f = "parse_spare_line" -> parse_spare_line(line)

\* C19: parse_line returns the observations of the first of volume,
\* physical, spare whose pattern matches the line and raises
\* UnrecognizedLine exactly when none matches; no line is matched by two of
\* the patterns, so the result is that of the one parser that accepts it.
C19_FirstMatchAndExclusive ==
  pc = "done" /\ fn = "parse_line" =>
    /\ Cardinality(Accepting(arg)) <= 1
    /\ ret.exc = "UnrecognizedLine" <=> Accepting(arg) = {}
    /\ ret.exc \in {"", "UnrecognizedLine"}
    /\ \A f \in Accepting(arg) : ret = ResultOf(f, arg) /\ ret.val # <<>>
    /\ ret.exc = "UnrecognizedLine" => ret.val = <<>>

\* a line of a spare disk: the third attempt succeeds
C19_Witness ==
  /\ pc = "done" /\ fn = "parse_line"
  /\ ret.exc = ""
  /\ Accepting(arg) = {"parse_spare_line"}

(***************************************************************************)
(* Properties of parse_display and of the records parse_phys_device_sect   *)
(* passes over.                                                            *)
(***************************************************************************)
\* C17: every observation parse_display returns carries the label
\* controller_id with the id given, next to the labels of its section
\* parser; there are as many as volume records plus physical-device records
\* not passed over; those of the volumes come first, then those of the
\* physical devices, each group in the order of the text.
C17_ControllerIdCountAndOrder ==
  SasDone("parse_display") /\ ret.exc = "" =>
    LET parts == SplitOnRule(arg.text)
        vols == split_by_empty_line(parts[5])
        phys == split_by_empty_line(parts[7])
        kept == Considered("parse_phys_device_sect", phys)
        nv == Len(vols)
    IN  /\ Len(ret.val) = nv + Cardinality(kept)
        /\ \A i \in 1..Len(ret.val) :
             ret.val[i].labels["controller_id"] = arg.controller_id
        /\ \A i \in 1..nv :
             /\ DOMAIN ret.val[i].labels =
                  {"controller_id", "device", "volume_num", "volume_id", "raidlevel"}
             /\ ret.val[i].labels["device"] = "logical"
             /\ ret.val[i].labels["volume_id"] =
                  Concat(LastCapture(vols[i], IR_VOLUME_REGEXP_MAP[2].re))
        /\ \A n \in 1..Cardinality(kept) :
             /\ DOMAIN ret.val[nv + n].labels =
                  {"controller_id", "device", "enclosure", "slot", "model"}
             /\ ret.val[nv + n].labels["device"] = "physical"
             /\ ret.val[nv + n].labels["slot"] =
                  Concat(LastCapture(phys[Nth(kept, n)], PHYS_DEVICE_REGEXP_MAP[2].re))

\* a display with two volumes and, after an initiator, two disks
C17_Witness ==
  /\ SasDone("parse_display") /\ ret.exc = ""
  /\ Len(ret.val) = 4
  /\ Len(split_by_empty_line(SplitOnRule(arg.text)[7])) = 3
  /\ arg.controller_id = "12"

\* the line begins with one of the two phrases, in any case
BeginsWithSkipPhrase(line) ==
  \/ LitAt(<<"Initiator", " ", "at", " ", "ID", " ", "#">>, line, 1)
  \/ LitAt(<<"Device", " ", "is", " ", "a", " ", "Enclosure", " ", "services", " ",
             "device">>, line, 1)

\* C18: a record of the physical-device section whose first line begins
\* with "Initiator at ID #" or "Device is a Enclosure services device" gives
\* no observation and no error, whatever its other lines are; every other
\* record gives one sas2ircu_state_ok observation with device "physical" or
\* makes the parser raise ParseError.  No record is empty, so taking the
\* first line of a record never fails.
C18_SkippedRecordsGiveNothing ==
  SasDone("parse_phys_device_sect") =>
    LET parts == split_by_empty_line(arg)
        others == {k \in 1..Len(parts) : ~BeginsWithSkipPhrase(parts[k][1])}
    IN  /\ \A k \in 1..Len(parts) : parts[k] # <<>>
        /\ ret.exc \in {"", "ParseError"}
        /\ others = {} => ret = Return(<<>>)
        /\ ret.exc = "ParseError" =>
             \E k \in others : Missing(parts[k], PHYS_DEVICE_REGEXP_MAP)
        /\ ret.exc = "" =>
             /\ Len(ret.val) = Cardinality(others)
             /\ \A i \in 1..Len(ret.val) :
                  /\ ret.val[i].name = "sas2ircu_state_ok"
                  /\ ret.val[i].labels["device"] = "physical"
                  /\ ret.val[i].value \in {0, 1}

\* a section with an enclosure-services record that lacks fields, followed
\* by the record of a disk
C18_Witness ==
  /\ SasDone("parse_phys_device_sect") /\ ret.exc = ""
  /\ Len(ret.val) = 1
  /\ LET parts == split_by_empty_line(arg)
     IN  /\ Len(parts) = 2
         /\ LitAt(<<"Device", " ", "is", " ", "a", " ", "Enclosure">>, parts[1][1], 1)
         /\ Missing(parts[1], PHYS_DEVICE_REGEXP_MAP)

(***************************************************************************)
(* Metric.__str__ and Metric.type_help_header, character by character, and *)
(* sorted() on texts.  The class is the same in both scripts.              *)
(***************************************************************************)
\* the characters of the texts, in the order of their code points
OrdChars ==
  << "\n", " ", "\"", "#", "%", "(", ")", ",", "-", ".", "/",
     "0", "1", "2", "3", "4", "5", "6", "7", "8", "9", ":", "=",
     "A", "B", "C", "D", "E", "F", "G", "H", "I", "J", "K", "L", "M",
     "N", "O", "P", "Q", "R", "S", "T", "U", "V", "W", "X", "Y", "Z", "_",
     "a", "b", "c", "d", "e", "f", "g", "h", "i", "j", "k", "l", "m",
     "n", "o", "p", "q", "r", "s", "t", "u", "v", "w", "x", "y", "z", "{", "}" >>

\* the place of a character in that order
Ord(c) == CHOOSE i \in 1..Len(OrdChars) : OrdChars[i] = c

RECURSIVE CommonPrefix(_, _, _, _)
\* the length of the longest common prefix of a and b, which is at least lo
\* and at most hi
CommonPrefix(a, b, lo, hi) ==
  IF lo = hi THEN lo
  ELSE LET m == (lo + hi + 1) \div 2
       IN  IF SubSeq(a, lo + 1, m) = SubSeq(b, lo + 1, m)
           THEN CommonPrefix(a, b, m, hi)
           ELSE CommonPrefix(a, b, lo, m - 1)

\* a < b on str: at the first place where they differ the character of a
\* is the smaller, or a is a proper prefix of b
StrLess(a, b) ==
  LET n == IF Len(a) < Len(b) THEN Len(a) ELSE Len(b)
      d == CommonPrefix(a, b, 0, n) + 1
  IN  IF d > n THEN Len(a) < Len(b)
      ELSE Ord(SubSeq(a, d, d)) < Ord(SubSeq(b, d, d))

\* sorted(texts) for a list of texts, equal texts kept all
Sorted(texts) ==
  LET n == Len(texts)
      Before(j, i) == StrLess(texts[j], texts[i]) \/ (texts[j] = texts[i] /\ j < i)
      rank == {<<i, Cardinality({j \in 1..n : Before(j, i)}) + 1>> : i \in 1..n}
  IN  [r \in 1..n |-> texts[(CHOOSE x \in rank : x[2] = r)[1]]]

\* sorted(d.keys()): the keys of a dict in ascending order
SortedKeys(d) ==
  LET K == DOMAIN d
      rank == {<<k, Cardinality({j \in K : StrLess(j, k)}) + 1>> : k \in K}
  IN  [r \in 1..Cardinality(K) |-> (CHOOSE x \in rank : x[2] = r)[1]]

RECURSIVE Join(_, _)
\* sep.join(texts)
Join(sep, texts) ==
  IF texts = <<>> THEN ""
  ELSE IF Len(texts) = 1 THEN texts[1]
  ELSE texts[1] \o sep \o Join(sep, Tail(texts))

\* "{}".format(value): the decimal digits of an int, a str as it is, None
Format(value) ==
  LET t == ToString(value)
  IN  IF t = "<<>>" THEN "None"
      ELSE IF SubSeq(t, 1, 1) = "\"" THEN value
      ELSE t

\* Metric.__str__ with the first label only
Str_FirstLabelOnly(metric) ==
  LET keys == SortedKeys(metric.labels)
      labels == IF keys = <<>> THEN ""
                ELSE keys[1] \o "=\"" \o Format(metric.labels[keys[1]]) \o "\""
  IN  metric.name \o (IF labels # "" THEN "{" \o labels \o "}" ELSE "")
        \o " " \o Format(metric.value)

\* Metric.__str__
Str(metric) ==
  LET keys == SortedKeys(metric.labels)
      labels == Join(", ", [i \in 1..Len(keys) |->
                              keys[i] \o "=\"" \o Format(metric.labels[keys[i]]) \o "\""])
  IN  metric.name \o (IF labels # "" THEN "{" \o labels \o "}" ELSE "")
        \o " " \o Format(metric.value)

\* Metric.type_help_header
type_help_header(metric) ==
  "# HELP " \o metric.name \o " " \o metric.help \o "\n# TYPE "
    \o metric.name \o " " \o metric.type

(***************************************************************************)
(* main of mpt-status.py: the probe command, one status command for each   *)
(* device, the aggregation of the observations and the exposition.         *)
(***************************************************************************)
\* the most devices one probe reports
MaxDevices == 2

CMD_PROBE == <<"mpt-status", "-p">>

CMD_STATUS == <<"mpt-status", "-n", "-i">>

\* re.search(r"found\s+scsi\s+id=\s*(\d+)", line, re.IGNORECASE)
PROBE_ID_RE ==
  << Lit(<<"found">>), Rep(ClsS, 1), Lit(<<"scsi">>), Rep(ClsS, 1), Lit(<<"id", "=">>),
     Rep(ClsS, 0), Grp("1", ClsD, 1) >>

\* re.match(r"scsi_id:\d+\s+\d+%", line, re.IGNORECASE)
PROGRESS_LINE_RE ==
  << Lit(<<"scsi_id", ":">>), Rep(ClsD, 1), Rep(ClsS, 1), Rep(ClsD, 1), Lit(<<"%">>) >>

\* regexp.search(s): the match that starts leftmost
SearchMatch(re, s) ==
  LET P == {i \in 1..(Len(s) + 1) : MatchFrom(re, s, 1, i).ok}
  IN  IF P = {} THEN [ok |-> FALSE, caps |-> <<>>, n |-> 0]
      ELSE MatchFrom(re, s, 1, CHOOSE i \in P : \A j \in P : i <= j)

\* subprocess.run(cmd, stdout=PIPE, timeout=CMD_TIMEOUT, check=True) ends in
\* one of these ways.  stdout is what the command printed, decoded: its
\* lines where main splits it into lines, one text where it does not.
\* run() itself does not decode, so the output an exception carries is of
\* type bytes, or None when the timeout came before anything was read.
Completed(stdout) == [exc |-> "", stdout |-> stdout, output |-> "bytes"]

Failures ==
  { [exc |-> "CalledProcessError", stdout |-> <<>>, output |-> "bytes"],
    [exc |-> "TimeoutExpired", stdout |-> <<>>, output |-> "bytes"],
    [exc |-> "TimeoutExpired", stdout |-> <<>>, output |-> "None"],
    [exc |-> "OSError", stdout |-> <<>>, output |-> "None"] }

\* "..." + e.output: defined for two str only
StrPlus(output) == IF output = "str" THEN Return("str") ELSE Raise("TypeError")

\* the ids mpt-status -p reports, in its order
DeviceIds == <<"0", "1", "2", "10">>

ProbeOutputs ==
  { <<<<"Checking", " ", "for", " ", "SCSI", " ", "ID", ":", "0">>>> \o
      [k \in 1..n |-> <<"Found", " ", "SCSI", " ", "id", "=", DeviceIds[k], ",", " ",
                         "use", " ", "mpt", "-", "status", " ", "-", "i", " ",
                         DeviceIds[k]>>] :
      n \in 0..MaxDevices }

VolumeLineA ==
  <<"ioc", ":", "0", " ", "vol_id", ":", "10", " ", "type", ":", "IM", " ",
    "raidlevel", ":", "RAID", "-", "1", " ", "num_disks", ":", "2", " ",
    "size", "(", "GB", ")", ":", "135", " ", "state", ":", " ", "OPTIMAL", " ",
    "flags", ":", " ", "ENABLED">>

VolumeLineB ==
  <<"ioc", ":", "1", " ", "vol_id", ":", "0", " ", "type", ":", "IS", " ",
    "raidlevel", ":", "RAID", "-", "0", " ", "num_disks", ":", "2", " ",
    "size", "(", "GB", ")", ":", "136", " ", "state", ":", " ", "DEGRADED", " ",
    "flags", ":", " ", "NONE">>

PhysLineA ==
  <<"ioc", ":", "0", " ", "phys_id", ":", "1", " ", "scsi_id", ":", "12", " ",
    "vendor", ":", "IBM", "-", "ESXS", " ", "product_id", ":", "ST3146356SS", "  ",
    "revision", ":", "BA49", " ", "size", "(", "GB", ")", ":", "136", " ",
    "state", ":", " ", "ONLINE", " ", "flags", ":", " ", "NONE", " ",
    "sync_state", ":", " ", "100", " ", "ASC", "/", "ASCQ", ":", "0x11">>

PhysLineB ==
  <<"ioc", ":", "0", " ", "phys_id", ":", "0", " ", "scsi_id", ":", "2", " ",
    "vendor", ":", "IBM", "-", "ESXS", " ", "product_id", ":", "ST3146356SS", "  ",
    "revision", ":", "BA49", " ", "size", "(", "GB", ")", ":", "136", " ",
    "state", ":", " ", "ONLINE", " ", "flags", ":", " ", "OUT_OF_SYNC", " ",
    "sync_state", ":", " ", "79", " ", "ASC", "/", "ASCQ", ":", "0x11">>

SpareLineA ==
  <<"ioc", ":", "0", " ", "spare_id", ":", "1", " ", "scsi_id", ":", "12", " ",
    "vendor", ":", "IBM", "-", "ESXS", " ", "product_id", ":", "ST3146356SS", "  ",
    "revision", ":", "BA49", " ", "size", "(", "GB", ")", ":", "136", " ",
    "state", ":", " ", "ONLINE", " ", "flags", ":", " ", "NONE", " ",
    "sync_state", ":", " ", "n", "/", "a", " ", "ASC", "/", "ASCQ", ":", "0x11">>

\* a volume line without its vol_id field, and a message of the driver
JunkLineA ==
  <<"ioc", ":", "0", " ", "type", ":", "IM", " ", "state", ":", " ", "OPTIMAL">>

JunkLineB == <<"open", " ", "/", "dev", "/", "mptctl", ":", " ", "No", " ", "such", " ", "file">>

\* the progress of a resynchronisation
ProgressLineA == <<"scsi_id", ":", "0", " ", "100", "%">>

ProgressLineB == <<"SCSI_ID", ":", "12", "  ", "79", "%">>

\* what mpt-status -n -i <id> prints, line by line
StatusOutputs ==
  { <<PhysLineB, VolumeLineA, PhysLineA>>,
    <<VolumeLineA, ProgressLineA, PhysLineA>>,
    <<JunkLineA, VolumeLineB, JunkLineB>>,
    <<VolumeLineB, SpareLineA>>,
    <<JunkLineB, <<>>, JunkLineA>>,
    <<ProgressLineB, ProgressLineA>>,
    <<>> }

\* the ids of the devices: the first group of the lines the pattern is in
VolumeIds(lines) ==
  LET P == {k \in 1..Len(lines) : SearchMatch(PROBE_ID_RE, lines[k]).ok}
  IN  [n \in 1..Cardinality(P) |->
         Group(PROBE_ID_RE, SearchMatch(PROBE_ID_RE, lines[Nth(P, n)]), "1")]

\* print("ERROR:", ..., file=sys.stderr)
error(stderr, msg, num, line) == Append(stderr, <<"ERROR:", msg, num, line>>)

\* what fatal(...) and an exception nobody catches leave on stderr; both
\* end the process with status 1
fatal(stderr, msg) == Append(stderr, <<"FATAL:", msg>>)

Traceback(stderr, exc) == Append(stderr, <<"Traceback", exc>>)

\* metrics.setdefault(metric.name, []).append(metric)
Aggregate(metrics, metric) ==
  IF metric.name \in DOMAIN metrics
  THEN [metrics EXCEPT ![metric.name] = Append(@, metric)]
  ELSE metrics @@ (metric.name :> <<metric>>)

RECURSIVE AggregateAll(_, _)
\* for metric in list: aggregate it
AggregateAll(metrics, list) ==
  IF list = <<>> THEN metrics
  ELSE AggregateAll(Aggregate(metrics, Head(list)), Tail(list))

\* the empty dict of aggregated observations
NoMetrics == [name \in {} |-> <<>>]

\* the status loop with the progress lines handed to parse_line as well
StatusLoop_ParseProgress(lines, k, metrics, stderr) ==
  CHOOSE s \in {IF r.exc = "UnrecognizedLine"
                THEN [metrics |-> metrics,
                      stderr |-> error(stderr, "Can't recognize line", k - 1, lines[k])]
                ELSE [metrics |-> AggregateAll(metrics, r.val), stderr |-> stderr] :
                r \in {parse_line(lines[k])}} : TRUE

\* one turn of the loop over the lines of a status output: line k, which
\* enumerate() numbers k - 1
StatusLoop(lines, k, metrics, stderr) ==
  IF Match(PROGRESS_LINE_RE, lines[k]).ok
  THEN [metrics |-> metrics, stderr |-> stderr]
  ELSE CHOOSE s \in {IF r.exc = "UnrecognizedLine"
                     THEN [metrics |-> metrics,
                           stderr |-> error(stderr, "Can't recognize line", k - 1,
                                            lines[k])]
                     ELSE [metrics |-> AggregateAll(metrics, r.val), stderr |-> stderr] :
                     r \in {parse_line(lines[k])}} : TRUE

RECURSIVE StatusLines(_, _, _, _)
\* the loop over the lines from line k on
StatusLines(lines, k, metrics, stderr) ==
  IF k > Len(lines) THEN [metrics |-> metrics, stderr |-> stderr]
  ELSE CHOOSE t \in {StatusLines(lines, k + 1, s.metrics, s.stderr) :
                      s \in {StatusLoop(lines, k, metrics, stderr)}} : TRUE

RECURSIVE Chain(_)
\* the texts of a list of lists, one after the other
Chain(blocks) == IF blocks = <<>> THEN <<>> ELSE Head(blocks) \o Chain(Tail(blocks))

\* the exposition with the samples of a name in the order of their discovery
Exposition_Unsorted(metrics) ==
  LET names == SortedKeys(metrics)
  IN  Chain([n \in 1..Len(names) |->
               <<type_help_header(metrics[names[n]][1])>> \o
                 [i \in 1..Len(metrics[names[n]]) |-> Str(metrics[names[n]][i])]])

\* the prints at the end of main, one text for each print(): for each name
\* in ascending order the header of its first observation, then its
\* observations as text, sorted
Exposition(metrics) ==
  LET names == SortedKeys(metrics)
  IN  Chain([n \in 1..Len(names) |->
               <<type_help_header(metrics[names[n]][1])>> \o
                 Sorted([i \in 1..Len(metrics[names[n]]) |-> Str(metrics[names[n]][i])])])

\* the locals and the streams when main starts
NewRun ==
  [volume_ids |-> <<>>, next |-> 1, metrics |-> NoMetrics,
   stdout |-> <<>>, stderr |-> <<>>, cmds |-> <<>>, code |-> None]

\* fatal(msg) that ends the process with status 0
Fatal_StatusZero(ran, stderr, msg) ==
  /\ pc' = "exit"
  /\ ret' = Raise("SystemExit")
  /\ run' = [run EXCEPT !.cmds = ran, !.stderr = fatal(stderr, msg), !.code = 0]

\* fatal(msg) that first prints what has been aggregated
Fatal_PrintsAggregated(ran, stderr, msg) ==
  /\ pc' = "exit"
  /\ ret' = Raise("SystemExit")
  /\ run' = [run EXCEPT !.cmds = ran, !.stderr = fatal(stderr, msg), !.code = 1,
                        !.stdout = IF DOMAIN run.metrics = {} THEN <<>>
                                   ELSE Exposition(run.metrics)]

\* fatal(msg) after the commands ran
Fatal(ran, stderr, msg) ==
  /\ pc' = "exit"
  /\ ret' = Raise("SystemExit")
  /\ run' = [run EXCEPT !.cmds = ran, !.stderr = fatal(stderr, msg), !.code = 1]

\* an exception nobody catches: the interpreter prints the traceback and
\* exits with status 1
Uncaught(ran, stderr, exc) ==
  /\ pc' = "exit"
  /\ ret' = Raise(exc)
  /\ run' = [run EXCEPT !.cmds = ran, !.stderr = Traceback(stderr, exc), !.code = 1]

\* except CalledProcessError / except TimeoutExpired: fatal(msg + e.output)
FatalWithOutput(ran, stderr, msg, output) ==
  IF StrPlus(output).exc # "" THEN Uncaught(ran, stderr, StrPlus(output).exc)
  ELSE Fatal(ran, stderr, msg)


\* lines 301-321: the probe and the ids of the devices
MptProbe ==
  /\ fn = "mpt-status.py" /\ pc = "probe"
  /\ \E o \in Failures \cup {Completed(t) : t \in ProbeOutputs} :
       LET ran == Append(run.cmds, [cmd |-> CMD_PROBE, outcome |-> o])
       IN  IF o.exc = "CalledProcessError"
           THEN FatalWithOutput(ran, run.stderr, "Failed to probe controllers", o.output)
           ELSE IF o.exc = "TimeoutExpired"
           THEN FatalWithOutput(ran, run.stderr, "Command timed out", o.output)
           ELSE IF o.exc = "OSError"
           THEN Fatal(ran, run.stderr, "Can't invoke mpt-status")
           ELSE IF VolumeIds(o.stdout) = <<>>
           THEN Fatal(ran, run.stderr, "No devices were found")
           ELSE /\ pc' = "status"
                /\ run' = [run EXCEPT !.cmds = ran, !.volume_ids = VolumeIds(o.stdout)]
                /\ UNCHANGED ret
  /\ UNCHANGED <<fn, arg>>

\* lines 324-342: one turn of the loop over the devices
MptStatus ==
  /\ fn = "mpt-status.py" /\ pc = "status"
  /\ \E o \in Failures \cup {Completed(t) : t \in StatusOutputs} :
     \E s \in {StatusLines(o.stdout, 1, run.metrics, run.stderr)} :
       LET ran == Append(run.cmds, [cmd |-> Append(CMD_STATUS, run.volume_ids[run.next]),
                                    outcome |-> o])
       IN  IF o.exc = "CalledProcessError"
           THEN FatalWithOutput(ran, run.stderr, "Failed to check status for device",
                                o.output)
           ELSE IF o.exc = "TimeoutExpired"
           THEN FatalWithOutput(ran, run.stderr, "Command timed out", o.output)
           ELSE IF o.exc = "OSError"
           THEN Uncaught(ran, run.stderr, "OSError")
           ELSE /\ pc' = IF run.next = Len(run.volume_ids) THEN "print" ELSE "status"
                /\ run' = [run EXCEPT !.cmds = ran, !.metrics = s.metrics,
                                      !.stderr = s.stderr, !.next = @ + 1]
                /\ UNCHANGED ret
  /\ UNCHANGED <<fn, arg>>

\* lines 344-352: the exposition, or the end without observations
MptExpose ==
  /\ fn = "mpt-status.py" /\ pc = "print"
  /\ IF DOMAIN run.metrics = {}
     THEN Fatal(run.cmds, run.stderr, "No metrics were parsed")
     ELSE /\ pc' = "exit"
          /\ ret' = Raise("SystemExit")
          /\ run' = [run EXCEPT !.stdout = Exposition(run.metrics), !.code = 0]
  /\ UNCHANGED <<fn, arg>>

(***************************************************************************)
(* main of sas2ircu.py: the LIST command, one DISPLAY command for each     *)
(* controller, the aggregation of the observations and the exposition.     *)
(***************************************************************************)
\* the most controllers one LIST reports
MaxControllers == 3

CMD_LIST == <<"sas2ircu", "LIST">>

CMD_DISPLAY == <<"sas2ircu", "DISPLAY">>

\* re.match(r"\s*(\d+)", line, re.IGNORECASE)
LIST_ID_RE == << Rep(ClsS, 0), Grp("1", ClsD, 1) >>

\* the indices sas2ircu LIST reports, in its order
ControllerIndices == <<"0", "1", "2", "12">>

\* what sas2ircu LIST prints, line by line: a heading, the table of the
\* controllers, a closing line
ListOutputs ==
  { << <<"LSI", " ", "Corporation", " ", "SAS", "2", " ", "IR", " ", "Configuration",
         " ", "Utility", ".">>,
       <<"  ", "Index", "  ", "Type", "  ", "ID">>,
       <<"  ", "----", "  ", "----", "  ", "----">> >> \o
      [k \in 1..n |-> <<"  ", ControllerIndices[k], "  ", "SAS", "2008", "  ",
                         "1000", "h">>] \o
      << <<"SAS", "2", "IRCU", ":", " ", "Utility", " ", "Completed", " ",
           "Successfully", ".">> >> :
      n \in 0..MaxControllers }

\* a dump of n segments with the given header, volume records, disk records
\* and header of the enclosure section
Dump(header, ir, phys, enclosure, n) ==
  JoinRule(SubSeq(<< <<"LSI", " ", "utility", "\n">>, header,
                     <<"  ", "Controller", " ", "type", "  ", ":", " ", "SAS", "\n">>,
                     <<"IR", " ", "Volume", " ", "information", "\n">>, ir,
                     <<"Physical", " ", "device", " ", "information", "\n">>, phys,
                     enclosure,
                     <<"  ", "Enclosure", " ", "#", "  ", ":", " ", "1", "\n">>,
                     <<"SAS", "2", "IRCU", ":", " ", "Utility", " ", "Completed", "\n">> >>,
                  1, n))

ControllerHeader == <<"Controller", " ", "information", "\n">>

EnclosureHeader == <<"Enclosure", " ", "information", "\n">>

\* what sas2ircu <index> DISPLAY prints: dumps with volumes and disks, with
\* volumes only, with neither; a dump whose volume lacks its id, one whose
\* last header is wrong, one that is cut short
DisplayOutputs ==
  { Dump(ControllerHeader, RecordsText(<<IrValidRecord>>),
         RecordsText(<<PhysValidRecord>>), EnclosureHeader, 10),
    Dump(ControllerHeader, RecordsText(<<IrValidRecord, IrSecondRecord>>),
         RecordsText(<<<<PhysInitiator>>, PhysValidRecord, PhysSecondRecord>>),
         EnclosureHeader, 10),
    Dump(ControllerHeader, RecordsText(<<IrSecondRecord>>), <<>>, EnclosureHeader, 10),
    Dump(ControllerHeader, <<>>, <<>>, EnclosureHeader, 10),
    Dump(ControllerHeader,
         RecordsText(<<<<IrVolumeNum, IrStatus(StDegraded), IrRaid("0")>>>>),
         RecordsText(<<PhysValidRecord>>), EnclosureHeader, 10),
    Dump(ControllerHeader, RecordsText(<<IrValidRecord>>),
         RecordsText(<<PhysValidRecord>>), BadHeader, 10),
    Dump(ControllerHeader, RecordsText(<<IrValidRecord>>),
         RecordsText(<<PhysValidRecord>>), EnclosureHeader, 9) }

\* the ids of the controllers: the first group of the lines the pattern matches
ControllerIdsOf(lines) ==
  LET P == {k \in 1..Len(lines) : Match(LIST_ID_RE, lines[k]).ok}
  IN  [n \in 1..Cardinality(P) |->
         Group(LIST_ID_RE, Match(LIST_ID_RE, lines[Nth(P, n)]), "1")]

\* cmd = list(CMD_DISPLAY); cmd[1:1] = [controller_id]
DisplayCmd(controller_id) == <<CMD_DISPLAY[1], controller_id, CMD_DISPLAY[2]>>

\* the locals and the streams when main starts
NewRunSas ==
  [controller_ids |-> <<>>, next |-> 1, metrics |-> NoMetrics,
   stdout |-> <<>>, stderr |-> <<>>, cmds |-> <<>>, code |-> None]

\* lines 471-487: the probe and the ids of the controllers
SasProbe ==
  /\ fn = "sas2ircu.py" /\ pc = "probe"
  /\ \E o \in Failures \cup {Completed(t) : t \in ListOutputs} :
       LET ran == Append(run.cmds, [cmd |-> CMD_LIST, outcome |-> o])
       IN  IF o.exc = "CalledProcessError"
           THEN FatalWithOutput(ran, run.stderr, "Failed to probe controllers", o.output)
           ELSE IF o.exc = "TimeoutExpired"
           THEN FatalWithOutput(ran, run.stderr, "Command timed out", o.output)
           ELSE IF o.exc = "OSError"
           THEN Fatal(ran, run.stderr, "Can't invoke sas2ircu")
           ELSE IF ControllerIdsOf(o.stdout) = <<>>
           THEN Fatal(ran, run.stderr, "No controllers were found")
           ELSE /\ pc' = "display"
                /\ run' = [run EXCEPT !.cmds = ran,
                                      !.controller_ids = ControllerIdsOf(o.stdout)]
                /\ UNCHANGED ret
  /\ UNCHANGED <<fn, arg>>

\* lines 490-507: one turn of the loop over the controllers
SasDisplay ==
  /\ fn = "sas2ircu.py" /\ pc = "display"
  /\ \E o \in Failures \cup {Completed(t) : t \in DisplayOutputs} :
     \E r \in {parse_display(run.controller_ids[run.next], o.stdout)} :
       LET controller_id == run.controller_ids[run.next]
           ran == Append(run.cmds, [cmd |-> DisplayCmd(controller_id), outcome |-> o])
       IN  IF o.exc = "CalledProcessError"
           THEN FatalWithOutput(ran, run.stderr, "Failed to check status for device",
                                o.output)
           ELSE IF o.exc = "TimeoutExpired"
           THEN FatalWithOutput(ran, run.stderr, "Command timed out", o.output)
           ELSE IF o.exc = "OSError"
           THEN Uncaught(ran, run.stderr, "OSError")
           ELSE IF r.exc = "ParseError"
           THEN Fatal(ran, run.stderr, "Failed to parse controller display")
           ELSE IF r.exc # ""
           THEN Uncaught(ran, run.stderr, r.exc)
           ELSE /\ pc' = IF run.next = Len(run.controller_ids) THEN "print" ELSE "display"
                /\ run' = [run EXCEPT !.cmds = ran,
                                      !.metrics = AggregateAll(@, r.val),
                                      !.next = @ + 1]
                /\ UNCHANGED ret
  /\ UNCHANGED <<fn, arg>>

\* lines 509-517: the exposition, or the end without observations
SasExpose ==
  /\ fn = "sas2ircu.py" /\ pc = "print"
  /\ IF DOMAIN run.metrics = {}
     THEN Fatal(run.cmds, run.stderr, "No metrics were parsed")
     ELSE /\ pc' = "exit"
          /\ ret' = Raise("SystemExit")
          /\ run' = [run EXCEPT !.stdout = Exposition(run.metrics), !.code = 0]
  /\ UNCHANGED <<fn, arg>>

(***************************************************************************)
(* The runs of the two scripts.                                            *)
(***************************************************************************)
InitMain ==
  /\ pc = "probe"
  /\ fn \in {"mpt-status.py", "sas2ircu.py"}
  /\ arg = <<>>
  /\ ret = Return(<<>>)
  /\ run = IF fn = "mpt-status.py" THEN NewRun ELSE NewRunSas

NextMain == MptProbe \/ MptStatus \/ MptExpose \/ SasProbe \/ SasDisplay \/ SasExpose

SpecMain == InitMain /\ [][NextMain]_vars

(***************************************************************************)
(* Properties of the runs of main of mpt-status.py.                        *)
(***************************************************************************)
\* the status commands of the run that completed, by their place in run.cmds
CompletedStatus ==
  {j \in 1..Len(run.cmds) :
     run.cmds[j].cmd[2] = "-n" /\ run.cmds[j].outcome.exc = ""}

\* the line is none of a volume, a disk and a spare record
Unrecognized(line) == Accepting(line) = {}

\* the line begins with the progress of a resynchronisation: scsi_id:N P%
IsProgress(line) == Match(PROGRESS_LINE_RE, line).ok

\* the diagnostics of a status output for the lines at the positions U
ErrorsAt(lines, U) ==
  [n \in 1..Cardinality(U) |->
     <<"ERROR:", "Can't recognize line", Nth(U, n) - 1, lines[Nth(U, n)]>>]

\* what a line of a status output is: the progress of a resynchronisation,
\* a record, or neither
Kind(line) ==
  IF IsProgress(line) THEN "progress"
  ELSE IF Unrecognized(line) THEN "unrecognized"
  ELSE "record"

\* the lines the status outputs are made of, each with what it is and with
\* the observations parse_line gives for it
LineTable ==
  {[line |-> l, kind |-> Kind(l), val |-> parse_line(l).val] :
     l \in UNION {Range(o) : o \in StatusOutputs}}

Entry(line) == CHOOSE e \in LineTable : e.line = line

\* the observations of the lines of a status output at the positions A
ObservationsAt(lines, A) ==
  Flatten([n \in 1..Cardinality(A) |-> Entry(lines[Nth(A, n)]).val])

\* what the lines of a status output are to give: a diagnostic for each line
\* that is neither progress nor record, the observations of each record
Report(lines) ==
  [errors |->
     ErrorsAt(lines, {k \in 1..Len(lines) : Entry(lines[k]).kind = "unrecognized"}),
   observations |->
     ObservationsAt(lines, {k \in 1..Len(lines) : Entry(lines[k]).kind = "record"})]

\* the reports of the completed status commands of the run, numbered in
\* their order
Reports ==
  {<<n, Report(run.cmds[Nth(CompletedStatus, n)].outcome.stdout)>> :
     n \in 1..Cardinality(CompletedStatus)}

IsError(e) == e[1] = "ERROR:"

\* C11 as stated: every line of a completed status output has either given
\* observations or an ERROR: diagnostic that names it.
C11_EveryLineObservedOrReported ==
  \A j \in CompletedStatus :
    \A k \in 1..Len(run.cmds[j].outcome.stdout) :
      LET line == run.cmds[j].outcome.stdout[k]
      IN  \/ ~Unrecognized(line)
          \/ \E n \in 1..Len(run.stderr) :
               run.stderr[n] = <<"ERROR:", "Can't recognize line", k - 1, line>>

\* C11, corrected: a line that begins with the progress of a
\* resynchronisation (scsi_id:N P%) is passed over without observation and
\* without diagnostic.  Every other line that matches none of the three
\* patterns gives one ERROR: diagnostic with its number and its text, in the
\* order of the lines, and does not end the run: the run ends only after
\* the last device, the observations of all the other lines of all the
\* devices are aggregated in their order, and every one of them is printed
\* when the run ends with status 0.
C11_UnrecognizedLinesAreReportedButProgress ==
  fn = "mpt-status.py" =>
    LET reports == Reports
        Of(n) == (CHOOSE p \in reports : p[1] = n)[2]
        errors == Flatten([n \in 1..Cardinality(reports) |-> Of(n).errors])
        all == Flatten([n \in 1..Cardinality(reports) |-> Of(n).observations])
        OfName(name) == LET Test(m) == m.name = name IN SelectSeq(all, Test)
    IN  /\ SelectSeq(run.stderr, IsError) = errors
        /\ DOMAIN run.metrics = {all[i].name : i \in 1..Len(all)}
        /\ \A name \in DOMAIN run.metrics : run.metrics[name] = OfName(name)
        /\ (pc = "exit" /\ run.cmds[Len(run.cmds)].outcome.exc = ""
              /\ Len(run.cmds) > 1)
             => run.next = Len(run.volume_ids) + 1
        /\ (pc = "exit" /\ ret = Raise("SystemExit") /\ run.code = 0) =>
             \A i \in 1..Len(all) : Str(all[i]) \in Range(run.stdout)

\* a run of two devices: the first prints a line that is not recognized
\* before a volume line, the second a progress line between two records;
\* the observations of both are printed
C11_Witness ==
  /\ fn = "mpt-status.py" /\ pc = "exit" /\ run.code = 0
  /\ Len(run.cmds) = 3
  /\ run.cmds[2].outcome.stdout = <<JunkLineA, VolumeLineB, JunkLineB>>
  /\ run.cmds[3].outcome.stdout = <<VolumeLineA, ProgressLineA, PhysLineA>>
  /\ Len(SelectSeq(run.stderr, IsError)) = 2
  /\ Len(run.stdout) > 4

(***************************************************************************)
(* Properties of the runs of main of both scripts.                         *)
(***************************************************************************)
\* the ids the probe of the run gave
Ids == IF fn = "mpt-status.py" THEN run.volume_ids ELSE run.controller_ids

\* the probe completed and none of its lines named a device
ProbeGaveNoIds ==
  /\ Len(run.cmds) >= 1
  /\ run.cmds[1].outcome.exc = ""
  /\ IF fn = "mpt-status.py" THEN VolumeIds(run.cmds[1].outcome.stdout) = <<>>
     ELSE ControllerIdsOf(run.cmds[1].outcome.stdout) = <<>>

\* every device of the probe has been fetched and its output gone through
AllFetched == Ids # <<>> /\ run.next = Len(Ids) + 1

\* the observations aggregated so far
Aggregated == UNION {Range(run.metrics[name]) : name \in DOMAIN run.metrics}

\* the last text on the error stream begins with FATAL:
EndsWithFatal == run.stderr # <<>> /\ run.stderr[Len(run.stderr)][1] = "FATAL:"

\* an observation as the text of a sample line on stdout
IsPrinted(metric) == Str(metric) \in Range(run.stdout)

\* C13: a run ends with status 0 exactly when it has aggregated at least one
\* observation and printed what it aggregated; every other run ends with
\* status 1 and has printed nothing.  When the probe names no device, and
\* when all devices were fetched without one observation, the run ends with
\* a FATAL: diagnostic, status 1 and an empty stdout.  Nothing is on stdout
\* before the run ends.
C13_StatusZeroIffObservationsPrinted ==
  /\ pc # "exit" => run.stdout = <<>>
  /\ pc = "exit" =>
       /\ run.code \in {0, 1}
       /\ run.code = 0 <=>
            /\ Aggregated # {}
            /\ \A metric \in Aggregated : IsPrinted(metric)
       /\ run.code = 1 => run.stdout = <<>>
       /\ (ProbeGaveNoIds \/ (AllFetched /\ Aggregated = {})) =>
            /\ EndsWithFatal
            /\ ret = Raise("SystemExit")
            /\ run.code = 1
            /\ run.stdout = <<>>
  /\ (ProbeGaveNoIds \/ (AllFetched /\ Aggregated = {})) => pc \in {"print", "exit"}

\* sas2ircu.py with two controllers or more whose dumps are well formed and
\* hold no record: the run ends with "No metrics were parsed"
C13_Witness ==
  /\ fn = "sas2ircu.py" /\ pc = "exit"
  /\ Len(run.controller_ids) >= 2
  /\ AllFetched /\ Aggregated = {}
  /\ run.stderr = <<<<"FATAL:", "No metrics were parsed">>>>
  /\ run.code = 1 /\ run.stdout = <<>>

(***************************************************************************)
(* Properties of the runs whose command fails.                             *)
(***************************************************************************)
\* the command the run invoked last
LastCmd == run.cmds[Len(run.cmds)]

\* the last command exited with a status that is not zero, or timed out
CommandFailed ==
  /\ Len(run.cmds) >= 1
  /\ LastCmd.outcome.exc \in {"CalledProcessError", "TimeoutExpired"}

\* no command of the run was invoked twice
NoneInvokedTwice ==
  \A i, j \in 1..Len(run.cmds) : i # j => run.cmds[i].cmd # run.cmds[j].cmd

\* C14 as stated: when the probe command or a fetch command exits with a
\* status that is not zero or times out, the run writes a FATAL: diagnostic
\* to the error stream, ends with status 1, prints no metric line and does
\* not invoke the failed command again.
C14_FailedCommandEndsWithFatal ==
  CommandFailed =>
    /\ pc = "exit"
    /\ \E n \in 1..Len(run.stderr) : run.stderr[n][1] = "FATAL:"
    /\ run.code = 1
    /\ run.stdout = <<>>
    /\ NoneInvokedTwice

(***************************************************************************)
(* Properties of the runs of main of sas2ircu.py.                          *)
(***************************************************************************)
\* the dumps for which parse_display fails: the section splitter raises, or
\* a record of the volume section or of the disk section lacks a field
DisplayFailures ==
  {t \in DisplayOutputs :
     LET sects == split_display_sections(t)
     IN  \/ sects.exc # ""
         \/ parse_ir_volume_sect(sects.val[2]).exc # ""
         \/ parse_phys_device_sect(sects.val[3]).exc # ""}

\* command j of the run is the DISPLAY of controller j - 1 of the probe
IsDisplayOf(j) == run.cmds[j].cmd = DisplayCmd(run.controller_ids[j - 1])

\* command j completed and its dump was parsed
Parsed(j) ==
  /\ run.cmds[j].outcome.exc = ""
  /\ run.cmds[j].outcome.stdout \notin DisplayFailures

\* command j completed and parse_display failed for its dump
ParseFailed(j) ==
  /\ run.cmds[j].outcome.exc = ""
  /\ run.cmds[j].outcome.stdout \in DisplayFailures

\* C15: sas2ircu.py prints only after the dump of every controller of the
\* probe has been fetched and parsed; when the splitter or the validation
\* of a record fails for a controller, be it the first, one in the middle
\* or the last, the run ends there with status 1 and nothing is on stdout,
\* whatever the controllers before it gave.
C15_PrintsOnlyAfterAllParsed ==
  fn = "sas2ircu.py" =>
    /\ run.stdout # <<>> =>
         /\ Len(run.cmds) = Len(run.controller_ids) + 1
         /\ \A j \in 2..Len(run.cmds) : IsDisplayOf(j) /\ Parsed(j)
    /\ \A j \in 2..Len(run.cmds) :
         ParseFailed(j) =>
           /\ j = Len(run.cmds)
           /\ pc = "exit"
           /\ run.code = 1
           /\ run.stdout = <<>>

\* three controllers: the dump of the first gave observations, the dump of
\* the second is not well formed
C15_Witness ==
  /\ fn = "sas2ircu.py" /\ pc = "exit"
  /\ Len(run.controller_ids) = 3
  /\ Len(run.cmds) = 3
  /\ Parsed(2) /\ ParseFailed(3)
  /\ Aggregated # {}
  /\ run.code = 1 /\ run.stdout = <<>>

(***************************************************************************)
(* Properties of the exposition.                                           *)
(***************************************************************************)
\* the aggregated observations as text, each with its name and its place in
\* the order of discovery
Samples ==
  UNION {{<<name, i, Str(run.metrics[name][i])>> : i \in 1..Len(run.metrics[name])} :
           name \in DOMAIN run.metrics}

\* the aggregated observations of each name in the opposite order
Rediscovered ==
  [name \in DOMAIN run.metrics |->
     [i \in 1..Len(run.metrics[name]) |->
        run.metrics[name][Len(run.metrics[name]) + 1 - i]]]

\* the run ended with status 0
Exposed == pc = "exit" /\ run.code = 0

\* C12: what a run prints is given by the names of the aggregated
\* observations and, for each name, by how many times each text is among
\* its observations, whatever the order of their discovery.  The names are
\* in ascending order; the block of a name is its header, which is the
\* header of every observation of the name, and then its samples in
\* ascending order of their text, a text as many times as it was observed;
\* nothing else is printed.  The same observations discovered in the
\* opposite order give the same output.
C12_ExpositionIgnoresDiscoveryOrder ==
  Exposed =>
    LET S == Samples
        names == DOMAIN run.metrics
    IN  /\ Len(run.stdout) = Cardinality(names) + Cardinality(S)
        /\ \A name \in names :
             LET before == {x \in names : StrLess(x, name)}
                 start == 1 + Cardinality(before) + Cardinality({s \in S : s[1] \in before})
                 texts == {s[3] : s \in {x \in S : x[1] = name}}
             IN  /\ \A i \in 1..Len(run.metrics[name]) :
                      run.stdout[start] = type_help_header(run.metrics[name][i])
                 /\ \A t \in texts :
                      LET less == Cardinality({x \in S : x[1] = name /\ StrLess(x[3], t)})
                          same == Cardinality({x \in S : x[1] = name /\ x[3] = t})
                      IN  \A q \in 1..same : run.stdout[start + less + q] = t
        /\ Exposition(Rediscovered) = run.stdout

\* a run that prints two names or more and that discovered two
\* observations of one name in descending order of their text
C12_Witness ==
  /\ Exposed
  /\ Cardinality(DOMAIN run.metrics) >= 2
  /\ LET S == Samples
     IN  \E s, t \in S : s[1] = t[1] /\ s[2] < t[2] /\ StrLess(t[3], s[3])

(***************************************************************************)
(* Metric.__str__ on the observations the extractors make.  The values of  *)
(* the labels are what the patterns capture: vendor, product_id and        *)
(* revision are \S+, any characters but blanks; the model of a disk is     *)
(* \w[-\w\s]+?, letters, digits, dashes and blanks; the others are digits  *)
(* or words.                                                               *)
(***************************************************************************)
\* observations of the size of a disk as parse_phys_line labels them
PhysSizes ==
  {Replace(mpt_status_size_gib, value,
           [controller_id |-> "0", device |-> "physical", id |-> id, scsi_id |-> "12",
            vendor |-> vendor, product_id |-> product_id, revision |-> revision]) :
     id \in {"1", "12"},
     vendor \in {"IBM-ESXS", "IBM\"", "\",revision=\"BA49"},
     product_id \in {"ST3146356SS", "ST\"X"},
     revision \in {"BA49", "B,"},
     value \in {"136", "1"}}

\* observations of the state of a disk as parse_phys_device_sect and
\* parse_display label them
DiskStates ==
  {Replace(sas2ircu_state_ok, value,
           [controller_id |-> controller_id, device |-> "physical", enclosure |-> "1",
            slot |-> slot, model |-> model]) :
     controller_id \in {"0", "12"},
     slot \in {"0", "1"},
     model \in {"WDC WD5003ABYX-1", "WDC  WD5003ABYX-1", "slot"},
     value \in {0, 1}}

\* observations of the state of a volume as parse_ir_volume_sect and
\* parse_display label them
VolumeStates ==
  {Replace(sas2ircu_state_ok, value,
           [controller_id |-> controller_id, device |-> "logical", raidlevel |-> "RAID1",
            volume_id |-> volume_id, volume_num |-> "1"]) :
     controller_id \in {"0", "12"},
     volume_id \in {"79", "80"},
     value \in {0, 1}}

\* two observations of one name, or an observation and its descriptor
InitStr ==
  /\ pc = "call"
  /\ fn = "Metric.__str__"
  /\ \/ arg \in PhysSizes \X PhysSizes
     \/ arg \in (DiskStates \cup VolumeStates) \X (DiskStates \cup VolumeStates)
     \/ \E m \in PhysSizes : arg = <<mpt_status_size_gib, m>>
     \/ \E m \in DiskStates \cup VolumeStates : arg = <<m, sas2ircu_state_ok>>
     \/ arg = <<sas2ircu_state_ok, sas2ircu_state_ok>>
  /\ ret = Return(<<>>)
  /\ run = NoRun

\* map(str, metrics): the text of each of the two observations
RenderBoth ==
  /\ pc = "call" /\ fn = "Metric.__str__"
  /\ ret' = Return(<<Str(arg[1]), Str(arg[2])>>)
  /\ pc' = "done"
  /\ UNCHANGED <<fn, arg, run>>

NextStr == RenderBoth

SpecStr == InitStr /\ [][NextStr]_vars

\* the places in text where pat begins
Places(text, pat) ==
  {i \in 1..(Len(text) - Len(pat) + 1) : SubSeq(text, i, i + Len(pat) - 1) = pat}

\* text.split(sep)
SplitText(text, sep) ==
  LET P == Places(text, sep)
      n == Cardinality(P)
  IN  [k \in 1..(n + 1) |->
         SubSeq(text, IF k = 1 THEN 1 ELSE Nth(P, k - 1) + Len(sep),
                      IF k = n + 1 THEN Len(text) ELSE Nth(P, k) - 1)]

\* a sample line read back: the value is what follows the last blank, the
\* labels are what is between the first { and the } before that blank,
\* split at ", ", each item a key, =" and the value up to the last "
Reparse(text) ==
  LET blank == CHOOSE i \in Places(text, " ") : \A j \in Places(text, " ") : j <= i
      head == SubSeq(text, 1, blank - 1)
      open == Places(head, "{")
      braces == open # {} /\ SubSeq(head, Len(head), Len(head)) = "}"
      first == CHOOSE i \in open : \A j \in open : i <= j
      items == IF braces THEN SplitText(SubSeq(head, first + 1, Len(head) - 1), ", ")
               ELSE <<>>
      Eq(item) == CHOOSE i \in Places(item, "=\"") : \A j \in Places(item, "=\"") : i <= j
      keys == {SubSeq(items[n], 1, Eq(items[n]) - 1) : n \in 1..Len(items)}
      ItemOf(key) == CHOOSE n \in 1..Len(items) : SubSeq(items[n], 1, Eq(items[n]) - 1) = key
  IN  [name |-> IF braces THEN SubSeq(head, 1, first - 1) ELSE head,
       labels |-> [key \in keys |->
                     SubSeq(items[ItemOf(key)], Eq(items[ItemOf(key)]) + 2,
                            Len(items[ItemOf(key)]) - 1)],
       value |-> SubSeq(text, blank + 1, Len(text))]

\* two observations with the same labels and the same value
SameSample(a, b) == a.labels = b.labels /\ ToString(a.value) = ToString(b.value)

\* C16: the texts of two observations of one name differ when their labels
\* or their values differ, and a text read back gives the name, the labels
\* and the value of its observation; an observation without labels is
\* rendered without braces.
C16_RenderingLosesNothing ==
  pc = "done" /\ fn = "Metric.__str__" =>
    /\ ~SameSample(arg[1], arg[2]) => ret.val[1] # ret.val[2]
    /\ \A i \in {1, 2} :
         /\ Reparse(ret.val[i]) = [name |-> arg[i].name, labels |-> arg[i].labels,
                                   value |-> Format(arg[i].value)]
         /\ DOMAIN arg[i].labels = {} =>
              ret.val[i] = arg[i].name \o " " \o Format(arg[i].value)

\* two disks that differ in their vendor only, the vendor of one with a
\* double quote, a comma and the name of another label in it
C16_Witness ==
  /\ pc = "done" /\ fn = "Metric.__str__"
  /\ arg[1] \in PhysSizes /\ arg[2] \in PhysSizes
  /\ arg[1].labels.vendor = "\",revision=\"BA49"
  /\ arg[2] = [arg[1] EXCEPT !.labels.vendor = "IBM\""]
  /\ ret.val[1] # ret.val[2]

(***************************************************************************)
(* The label maps as objects.  A dict has an identity: the heap is the     *)
(* list of the dicts made so far, a dict is named by its place in it, and  *)
(* a Metric holds the place of its labels.  The descriptors are made when  *)
(* the module is loaded, each with its own {}.  made is the list of the    *)
(* observations the parse operations have returned so far.                 *)
(***************************************************************************)
\* the most parse operations in one sequence
MaxParses == 3

\* the descriptors of a script, in the order of their definition; the
\* labels of descriptor n are the dict at place n
Descriptors(script) ==
  IF script = "mpt-status.py"
  THEN <<mpt_status_state, mpt_status_flag, mpt_status_disks_num,
         mpt_status_sync_percentage, mpt_status_size_gib>>
  ELSE <<sas2ircu_state_ok>>

\* {...}: a new dict with the given items
NewDict(heap, items) == [heap |-> Append(heap, items), at |-> Len(heap) + 1]

\* labels = base_labels, the same dict under another name
CopyDict_Shared(heap, at) == [heap |-> heap, at |-> at]

\* base_labels.copy(): a new dict with the items of the dict at the place
CopyDict(heap, at) == NewDict(heap, heap[at])

\* labels[key] = value on the dict at the place
SetItem(heap, at, key, value) == [heap EXCEPT ![at] = WithLabel(@, key, value)]

\* descriptor._replace(value=value, labels=labels): a new Metric that holds
\* the place of the dict it was given
ReplaceAt(metric, value, at) == [name |-> metric.name, value |-> value, labels |-> at]

RECURSIVE SetItems(_, _, _, _)
\* labels[key] = items[key] for the keys in K
SetItems(heap, at, items, K) ==
  IF K = {} THEN heap
  ELSE LET key == CHOOSE k \in K : TRUE
       IN  SetItems(SetItem(heap, at, key, items[key]), at, items, K \ {key})

RECURSIVE CopyEach(_, _, _, _)
\* the loops of parse_volume_line, parse_phys_line and parse_spare_line from
\* observation k on: a copy of base_labels for each observation, the label
\* of the state or of the flag set on the copy, and the Metric made with it
CopyEach(heap, base, obs, k) ==
  IF k > Len(obs) THEN [heap |-> heap, metrics |-> <<>>]
  ELSE LET c == CopyDict(heap, base)
           h == SetItems(c.heap, c.at, obs[k].labels,
                         DOMAIN obs[k].labels \ DOMAIN c.heap[c.at])
           rest == CopyEach(h, base, obs, k + 1)
       IN  [heap |-> rest.heap,
            metrics |-> <<ReplaceAt(obs[k], obs[k].value, c.at)>> \o rest.metrics]

\* the labels every observation of the line has: base_labels
BaseLabels(obs) ==
  [key \in {k \in DOMAIN obs[1].labels : k \notin {"state", "flag"}} |-> obs[1].labels[key]]

RECURSIVE NewEach(_, _, _)
\* the loops of parse_ir_volume_sect and parse_phys_device_sect from
\* observation k on: a new dict for each record, its labels set one by one,
\* and the Metric made with it
NewEach(heap, obs, k) ==
  IF k > Len(obs) THEN [heap |-> heap, metrics |-> <<>>]
  ELSE LET n == NewDict(heap, [key \in {"device"} |-> obs[k].labels.device])
           h == SetItems(n.heap, n.at, obs[k].labels, DOMAIN obs[k].labels \ {"device"})
           rest == NewEach(h, obs, k + 1)
       IN  [heap |-> rest.heap,
            metrics |-> <<ReplaceAt(obs[k], obs[k].value, n.at)>> \o rest.metrics]

RECURSIVE StampEach(_, _, _, _)
\* for metric in metrics: metric.labels["controller_id"] = controller_id
StampEach(heap, metrics, controller_id, k) ==
  IF k > Len(metrics) THEN heap
  ELSE StampEach(SetItem(heap, metrics[k].labels, "controller_id", controller_id),
                 metrics, controller_id, k + 1)

\* what a parse operation leaves: the heap, the Metrics it returns, or the
\* exception it raises.  The dicts of a call that raises are lost with it.
LineOnHeap(heap, r) ==
  IF r.exc # "" THEN [heap |-> heap, metrics |-> <<>>, exc |-> r.exc]
  ELSE LET b == NewDict(heap, BaseLabels(r.val))
           c == CopyEach(b.heap, b.at, r.val, 1)
       IN  [heap |-> c.heap, metrics |-> c.metrics, exc |-> ""]

SectOnHeap(heap, r) ==
  IF r.exc # "" THEN [heap |-> heap, metrics |-> <<>>, exc |-> r.exc]
  ELSE LET c == NewEach(heap, r.val, 1)
       IN  [heap |-> c.heap, metrics |-> c.metrics, exc |-> ""]

\* parse_display once the sections are split: the two section parsers one
\* after the other, then the controller_id set on every Metric
\* (a set of one element holds the value of a call: it is made once)
SectsOnHeap(heap, controller_id, ir_volume_sect, phys_device_sect) ==
  LET Failed(exc) == [heap |-> heap, metrics |-> <<>>, exc |-> exc]
      Both(vol) ==
        CHOOSE s \in {IF phys.exc # "" THEN Failed(phys.exc)
                      ELSE [heap |-> StampEach(phys.heap, vol.metrics \o phys.metrics,
                                               controller_id, 1),
                            metrics |-> vol.metrics \o phys.metrics, exc |-> ""] :
                      phys \in {SectOnHeap(vol.heap,
                                           parse_phys_device_sect(phys_device_sect))}} : TRUE
  IN  CHOOSE s \in {IF vol.exc # "" THEN Failed(vol.exc) ELSE Both(vol) :
                    vol \in {SectOnHeap(heap, parse_ir_volume_sect(ir_volume_sect))}} : TRUE

DisplayOnHeap(heap, controller_id, text) ==
  CHOOSE s \in {IF sects.exc # "" THEN [heap |-> heap, metrics |-> <<>>, exc |-> sects.exc]
                ELSE SectsOnHeap(heap, controller_id, sects.val[2], sects.val[3]) :
                sects \in {split_display_sections(text)}} : TRUE

\* the lines and the texts the operations are called with
HeapLines == {VolumeLineA, PhysLineA, SpareLineA, JunkLineA}

HeapIrTexts ==
  {RecordsText(<<IrValidRecord, IrSecondRecord>>),
   RecordsText(<<<<IrVolumeNum>>>>)}

HeapPhysTexts ==
  {RecordsText(<<<<PhysInitiator>>, PhysValidRecord, PhysSecondRecord>>),
   RecordsText(<<<<IrVolumeNum>>>>)}

HeapDisplayTexts ==
  {Dump(ControllerHeader, RecordsText(<<IrValidRecord>>),
        RecordsText(<<PhysValidRecord>>), EnclosureHeader, 10),
   Dump(ControllerHeader, RecordsText(<<IrValidRecord>>),
        RecordsText(<<PhysValidRecord>>), BadHeader, 10)}

\* the process after the module is loaded: the descriptors and their dicts
InitHeap ==
  /\ pc = "ready"
  /\ fn = "" /\ arg = <<>>
  /\ ret = Return(<<>>)
  /\ \E script \in {"mpt-status.py", "sas2ircu.py"} :
       run = [script |-> script,
              heap |-> [n \in 1..Len(Descriptors(script)) |-> EmptyLabels],
              made |-> <<>>, parsed |-> 0]

\* the operation returns: its Metrics are kept with the items their dicts
\* hold at that moment
Returned(name, input, s) ==
  /\ pc' = "ready"
  /\ fn' = name
  /\ arg' = input
  /\ ret' = IF s.exc # "" THEN Raise(s.exc) ELSE Return(s.metrics)
  /\ run' = [run EXCEPT
               !.heap = s.heap,
               !.made = @ \o [k \in 1..Len(s.metrics) |->
                                [metric |-> s.metrics[k],
                                 items |-> s.heap[s.metrics[k].labels]]],
               !.parsed = @ + 1]

ParseVolumeLineOnHeap ==
  /\ run.script = "mpt-status.py" /\ run.parsed < MaxParses
  /\ \E line \in HeapLines :
     \E s \in {LineOnHeap(run.heap, parse_volume_line(line))} :
       Returned("parse_volume_line", line, s)

ParsePhysLineOnHeap ==
  /\ run.script = "mpt-status.py" /\ run.parsed < MaxParses
  /\ \E line \in HeapLines :
     \E s \in {LineOnHeap(run.heap, parse_phys_line(line))} :
       Returned("parse_phys_line", line, s)

ParseSpareLineOnHeap ==
  /\ run.script = "mpt-status.py" /\ run.parsed < MaxParses
  /\ \E line \in HeapLines :
     \E s \in {LineOnHeap(run.heap, parse_spare_line(line))} :
       Returned("parse_spare_line", line, s)

ParseIrVolumeSectOnHeap ==
  /\ run.script = "sas2ircu.py" /\ run.parsed < MaxParses
  /\ \E text \in HeapIrTexts :
     \E s \in {SectOnHeap(run.heap, parse_ir_volume_sect(text))} :
       Returned("parse_ir_volume_sect", text, s)

ParsePhysDeviceSectOnHeap ==
  /\ run.script = "sas2ircu.py" /\ run.parsed < MaxParses
  /\ \E text \in HeapPhysTexts :
     \E s \in {SectOnHeap(run.heap, parse_phys_device_sect(text))} :
       Returned("parse_phys_device_sect", text, s)

ParseDisplayOnHeap ==
  /\ run.script = "sas2ircu.py" /\ run.parsed < MaxParses
  /\ \E controller_id \in {"0", "12"}, text \in HeapDisplayTexts :
     \E s \in {DisplayOnHeap(run.heap, controller_id, text)} :
       Returned("parse_display", [controller_id |-> controller_id, text |-> text], s)

NextHeap ==
  \/ ParseVolumeLineOnHeap \/ ParsePhysLineOnHeap \/ ParseSpareLineOnHeap
  \/ ParseIrVolumeSectOnHeap \/ ParsePhysDeviceSectOnHeap \/ ParseDisplayOnHeap

SpecHeap == InitHeap /\ [][NextHeap]_vars

\* the places of the dicts of the descriptors
DescriptorDicts == 1..Len(Descriptors(run.script))

\* C20: after any sequence of parse operations the dict of every descriptor
\* is empty and the value of every descriptor is None; the dict of every
\* observation an operation has returned holds the items it held when the
\* operation returned it; no two observations hold the same dict and none
\* holds the dict of a descriptor.
C20_DescriptorsAndObservationsKeepTheirLabels ==
  /\ \A d \in DescriptorDicts :
       /\ DOMAIN run.heap[d] = {}
       /\ Descriptors(run.script)[d].value = None
  /\ \A k \in 1..Len(run.made) :
       /\ run.heap[run.made[k].metric.labels] = run.made[k].items
       /\ run.made[k].metric.labels \notin DescriptorDicts
       /\ \A j \in 1..Len(run.made) :
            j # k => run.made[j].metric.labels # run.made[k].metric.labels

\* parse_display after parse_ir_volume_sect: the observations of the first
\* call have no controller_id, those of the second have one
C20_Witness ==
  /\ run.script = "sas2ircu.py"
  /\ fn = "parse_display" /\ ret.exc = ""
  /\ Len(run.made) >= 4
  /\ "controller_id" \notin DOMAIN run.heap[run.made[1].metric.labels]
  /\ run.heap[run.made[Len(run.made)].metric.labels].controller_id = arg.controller_id

====
